---- MODULE Spec2Model ----
(***************************************************************************)
(* Model of the Mnemosyne watcher: the sampler loop (internal/monitor),    *)
(* the in-memory buffer with its auto-flush timer (internal/buffer), the   *)
(* two persistence sinks (SQLite database, Redis stream) and the process   *)
(* lifecycle of cmd/watcher main.                                          *)
(*                                                                         *)
(* Spec     : the concurrent process: main, the sampler goroutine          *)
(*            (Monitor.Start / tick / flush / shutdown), the flush-handler *)
(*            goroutine, the buffer timer, the sinks.  The values a tick   *)
(*            reads from the OS are abstracted to the outcome of its       *)
(*            gates (skip / admit).                                        *)
(* SpecTick : one sampler running ticks to completion, with the values     *)
(*            read from the OS and the monitor's State in full.            *)
(***************************************************************************)
EXTENDS Integers, Sequences, FiniteSets, TLC

\* ------------------------------------------------------------------ bounds
\* BufferConfig.Capacity as configured for the run (-buffer; default 100).
Capacity == 3
\* Records the sampler may admit in one run of the model.
MaxAdds == 4
\* Width in bits of the OS tick counter (GetTickCount: 32).
TickBits == 4
\* BufferConfig.FlushTimeout in clock steps (-flush; default 5 minutes).
TFlush == 2

\* Ticks past the game gate one run of SpecTick may take.
MaxTicks == 1
\* Ticks the game gate may stop in one run of SpecTick.
MaxSkipped == 10

\* ------------------------------------------------------------------ program constants
\* DefaultConfig().TickInterval, in milliseconds: the time between two ticks.
TickPeriod == 1000
\* Config.IdleThreshold (-idle default), in milliseconds.
IdleThreshold == 60000
\* calculateInputScore: an idle time of 5000 ms or more scores 0.
ScoreWindow == 5000
\* tick: timePassed is now - LastTickTime > 5 s.
TimePassedAfter == 5000
\* DefaultConfig().ScreenshotInterval, in milliseconds.
DefaultScreenshotInterval == 1000

\* ------------------------------------------------------------------ state
VARIABLES
    redis,          \* Monitor.redis != nil (a -redis address was given)
    dbHealthy,      \* the SQLite database accepts every write, promptly
    redisHealthy,   \* the Redis server accepts every publish, promptly
    surplusArg,     \* what the SQL driver does with an argument beyond the placeholders
    scenario,       \* the script the probe's answers follow (SpecScen), or "none"
    mainPc,         \* main: "running" (first select), "stopping" (second select), "exited"
    exitCode,       \* argument of os.Exit; -1 while the process runs
    exitBy,         \* "none", "done" (monitorDone received), "timeout" (time.After fired),
                    \* "fatal" (log.Fatalf during initialization)
    closeCalls,     \* how often db.Close() and redisClient.Close() have been called
    ctxCancelled,   \* cancel() has been called
    pc,             \* location of the sampler goroutine and of the flush handler
    batch,          \* per task: the entries GetAndClear returned, not yet published
    startErr,       \* value Start sent on monitorDone: "none", "nil", "err"
    entries,        \* Buffer.entries
    bmu,            \* holder of Buffer.mu: "free", "sampler", "handler"
    flushTimer,     \* Buffer.flushTimer: remaining steps, or TimerOff (fired or stopped)
    flushChan,      \* number of notifications in Buffer.flushChan (capacity 1)
    stopChanClosed, \* Buffer.stopChan is closed (Buffer.Stop ran)
    flushNeeded,    \* the value the last Buffer.Add returned
    flushRet,       \* what the last Flush / ForceFlush call returned: "none", "nil", "err"
    dbBatches,      \* raw_events: the committed transactions, each its rows in order
    stream,         \* the Redis stream mnemosyne:events
    attempted,      \* the records PublishEvent was called for, in call order
    nextId,         \* number of the next record the sampler admits
    drainAttempts,  \* number of calls of Buffer.ForceFlush (Monitor.shutdown)
    shotInterval,   \* Config.ScreenshotInterval, in milliseconds
    now,            \* time.Now() at the entry of the latest tick, in milliseconds
    tickCount,      \* Monitor.tickCount
    skippedTicks,   \* Monitor.skippedTicks
    idleTicks,      \* Monitor.idleTicks
    mstate,         \* Monitor.state
    shots,          \* number of screenshots captured so far
    tickEntry,      \* the LogEntry the latest tick handed to Buffer.Add, if it did
    probe,          \* what the latest tick read from the OS, if it found a window
    tickRead,       \* the OS tick counter, the tick of the last input, and GetIdleTime's answer
    lastGate,       \* how the latest tick ended: "none", "game", "nowindow", "nolog", "logged"
                    \* (SpecRow: the latest call on the buffer: "add", "flush", "forceflush")
    gameRun,        \* number of consecutive game-gated ticks ending with the latest tick
    runBase,        \* skippedTicks, nextId, shots and mstate when that run began
    flushCount,     \* Monitor.flushCount
    eventsPushed,   \* Monitor.eventsPushed
    reg,            \* per task: the counter value Monitor.flush loaded and has not stored yet
    pushed,         \* per task: Monitor.flush's local pushed
    lastFlush,      \* Buffer.lastFlush, in milliseconds
    heap,           \* the arrays behind Buffer.entries and behind the slice a call handed out
    rw,             \* Monitor.mu (m) and Buffer.mu (b) as sync.RWMutex, and where each
                    \* goroutine is in its sequence of lock calls
    xstream         \* the Redis server: the nodes of mnemosyne:events, the latest XADD

vars == << redis, dbHealthy, redisHealthy, surplusArg, scenario, mainPc, exitCode, exitBy,
           closeCalls, ctxCancelled,
           pc, batch, startErr, entries, bmu, flushTimer, flushChan, stopChanClosed,
           flushNeeded, flushRet, dbBatches, stream, attempted, nextId, drainAttempts,
           shotInterval, now, tickCount, skippedTicks, idleTicks, mstate, shots,
           tickEntry, probe, tickRead, lastGate, gameRun, runBase,
           flushCount, eventsPushed, reg, pushed, lastFlush, heap, rw, xstream >>

\* Groups of variables, for the UNCHANGED clauses.
envVars == << redis, dbHealthy, redisHealthy, surplusArg, scenario >>
osVars == << tickRead >>
deferVars == << closeCalls >>
statVars == << flushCount, eventsPushed, reg, pushed >>
serverVars == << xstream >>
mainVars == << mainPc, exitCode, exitBy, ctxCancelled >>
sinkVars == << dbBatches, stream, attempted >>
tickVars == << shotInterval, now, tickCount, skippedTicks, idleTicks, mstate, shots,
               tickEntry, probe, lastGate, gameRun, runBase >>
lifeVars == << mainPc, exitCode, exitBy, ctxCancelled, pc, batch, startErr, bmu,
               flushChan, stopChanClosed, drainAttempts >>

Tasks == {"sampler", "handler"}

\* The timer has fired or was stopped: no callback is scheduled.
TimerOff == 0 - 1

\* Where a task goes when Monitor.flush returns.
Home(t) == IF t = "sampler" THEN "loop" ELSE "wait"

\* The process has not called os.Exit: its goroutines still run.
Alive == mainPc # "exited"

\* time.Now() when the monitor is constructed: far from the zero time.
StartTime == 100 * TickPeriod

\* ------------------------------------------------------------------ buffer
\* Buffer.startFlushTimer: time.AfterFunc(FlushTimeout, ...).
startFlushTimer == TFlush

\* Buffer.resetFlushTimer: Stop the old timer, start a new one.
resetFlushTimer == startFlushTimer

\* Mutant: Add puts the new entry in front.
BufferAdd_Prepend(es, e) == << e >> \o es

\* Buffer.Add: append, then compare the length with the capacity.
BufferAdd(es, e) == Append(es, e)

\* Mutant: the threshold is compared with > instead of >=.
AddSignalsFlush_Late(es) == Len(es) > Capacity

AddSignalsFlush(es) == Len(es) >= Capacity

\* New(config): an empty buffer with its timer started.
BufferInit ==
    /\ entries = << >>
    /\ lastFlush = StartTime
    /\ heap = [ arr |-> [i \in 1..3 |-> IF i = 1 THEN [j \in 1..Capacity |-> 0] ELSE << >>],
                ent |-> [a |-> 1, n |-> 0],
                out |-> [a |-> 0, n |-> 0],
                ret |-> << >> ]
    /\ bmu = "free"
    /\ flushTimer = startFlushTimer
    /\ flushChan = 0
    /\ stopChanClosed = FALSE

\* ------------------------------------------------------------------ monitor
\* The zero time.Time, the value of State.LastScreenshotTime after New.
ZeroTime == 0

\* A tick interval below one second (-tick 200ms), in milliseconds.
FastTickPeriod == 200

\* Config.TickInterval of the run: the period of Start's ticker.
TickInterval == IF scenario = "Fast" THEN FastTickPeriod ELSE TickPeriod

\* cmd/watcher builds monitor.Config without ScreenshotInterval: it is zero.
MainScreenshotInterval == 0

\* fmt.Sprintf("PID_%d", pid).
ProcessNameOf(pid) == << "PID", pid >>

\* No record has been admitted yet.
NoEntry == [ UnixTime |-> ZeroTime ]

\* The tick returned before it had a window (GetForegroundWindow failed).
NoProbe == [ hwnd |-> 0 ]

\* monitor.New: State{LastTickTime: time.Now()}, counters zero.
NewState ==
    [ LastWindowHandle   |-> 0,
      LastWindowTitle    |-> "",
      LastProcessName    |-> << >>,
      LastInputTick      |-> 0,
      LastTickTime       |-> StartTime,
      LastScreenshotTime |-> ZeroTime ]

\* main: defer db.Close() and defer redisClient.Close() are registered, neither has run.
DeferInit == closeCalls = [ db |-> 0, redis |-> 0 ]

\* monitor.New: flushCount and eventsPushed are zero; no call of Monitor.flush
\* is under way.
StatInit ==
    /\ flushCount = 0
    /\ eventsPushed = 0
    /\ reg = [t \in Tasks |-> 0]
    /\ pushed = [t \in Tasks |-> 0]

\* The largest number of entries the Redis server keeps in one node of a
\* stream.
NodeEntries == 100

\* PublishEvent has not been called.
NoCall == [ Stream |-> "", MaxLen |-> 0, Approx |-> FALSE ]

\* A Redis server whose node size is one of caps, before the first XADD: the
\* stream does not exist.
ServerInit(caps) ==
    xstream \in { [ cap |-> c, nodes |-> << >>, len |-> 0, xadds |-> 0, call |-> NoCall ] :
                    c \in caps }

\* GetIdleTime has not been called.
NoIdle == 0 - 1

\* The machine has just booted: the tick counter and the last-input tick are 0.
OsInit == tickRead = [ tick |-> 0, lastInput |-> 0, elapsed |-> 0, idle |-> NoIdle ]

MonitorInit ==
    /\ now = StartTime
    /\ tickCount = 0
    /\ skippedTicks = 0
    /\ idleTicks = 0
    /\ mstate = NewState
    /\ shots = 0
    /\ tickEntry = NoEntry
    /\ probe = NoProbe
    /\ lastGate = "none"
    /\ gameRun = 0
    /\ runBase = << 0, 1, 0, NewState >>
    /\ rw = [ w    |-> [x \in {"m", "b"} |-> "none"],
              in   |-> [x \in {"m", "b"} |-> FALSE],
              r    |-> [x \in {"m", "b"} |-> {}],
              prog |-> [t \in {"sampler", "handler", "stats", "caller"} |-> << >>],
              at   |-> [t \in {"sampler", "handler", "stats", "caller"} |-> 0] ]

\* ------------------------------------------------------------------ initial state
\* main up to the start of the monitor: ensureDataDir, initDatabase and
\* NewRedisClient succeed, or one of them fails and log.Fatalf ends the process
\* with code 1 before anything of the monitor runs.
MainInit ==
    \/ mainPc = "running" /\ exitCode = -1 /\ exitBy = "none"
    \/ mainPc = "exited" /\ exitCode = 1 /\ exitBy = "fatal"

Init ==
    /\ redis \in BOOLEAN
    /\ dbHealthy \in BOOLEAN
    /\ redisHealthy \in BOOLEAN
    /\ surplusArg = "ignored"
    /\ scenario = "none"
    /\ MainInit
    /\ ctxCancelled = FALSE
    /\ pc = [t \in Tasks |-> Home(t)]
    /\ batch = [t \in Tasks |-> << >>]
    /\ startErr = "none"
    /\ BufferInit
    /\ flushNeeded = FALSE
    /\ flushRet = "none"
    /\ dbBatches = << >>
    /\ stream = << >>
    /\ attempted = << >>
    /\ nextId = 1
    /\ drainAttempts = 0
    /\ shotInterval = MainScreenshotInterval
    /\ MonitorInit
    /\ OsInit
    /\ DeferInit
    /\ StatInit
    /\ ServerInit({NodeEntries})

\* ------------------------------------------------------------------ the timer
\* One step of the clock while the timer is scheduled.
TimerTick ==
    /\ Alive
    /\ flushTimer > 0
    /\ flushTimer' = flushTimer - 1
    /\ UNCHANGED << tickVars, envVars, serverVars, rw, lastFlush, heap, osVars, deferVars, statVars, mainVars, sinkVars, pc, batch, startErr, entries, bmu,
                    flushChan, stopChanClosed, flushNeeded, flushRet, nextId,
                    drainAttempts >>

\* Mutant: the callback queues a notification behind the pending one.
TimerCallbackChan_Queue(ch) == ch + 1

\* The callback of time.AfterFunc in startFlushTimer: a non-blocking send on
\* flushChan; a notification already pending makes the send a no-op.
TimerCallbackChan(ch) == IF ch = 0 THEN 1 ELSE ch

\* The timer is one-shot: nothing in the callback schedules it again.
TimerAfterFire == TimerOff

TimerFire ==
    /\ Alive
    /\ flushTimer = 0
    /\ flushChan' = TimerCallbackChan(flushChan)
    /\ flushTimer' = TimerAfterFire
    /\ UNCHANGED << tickVars, envVars, serverVars, rw, lastFlush, heap, osVars, deferVars, statVars, mainVars, sinkVars, pc, batch, startErr, entries, bmu,
                    stopChanClosed, flushNeeded, flushRet, nextId, drainAttempts >>

\* ------------------------------------------------------------------ the sampler loop
\* Start's select takes ticker.C and tick() returns without admitting a record
\* (game gate, no foreground window, or the admission predicate is false).
\* The tick's counters and State are followed in SpecTick.
TickSkip ==
    /\ Alive
    /\ pc["sampler"] = "loop"
    /\ UNCHANGED vars

\* Start's select takes ticker.C and tick() decides to admit a record: it holds
\* Monitor.mu and is about to call Buffer.Add.
TickAdmit ==
    /\ Alive
    /\ pc["sampler"] = "loop"
    /\ nextId <= MaxAdds
    /\ pc' = [pc EXCEPT !["sampler"] = "add"]
    /\ UNCHANGED << tickVars, envVars, serverVars, rw, lastFlush, heap, osVars, deferVars, statVars, mainVars, sinkVars, batch, startErr, entries, bmu,
                    flushTimer, flushChan, stopChanClosed, flushNeeded, flushRet,
                    nextId, drainAttempts >>

\* tick(): flushNeeded := m.buf.Add(entry); if flushNeeded { m.flush() }.
\* Add takes Buffer.mu for the append and the comparison.
TickAdd ==
    /\ Alive
    /\ pc["sampler"] = "add"
    /\ bmu = "free"
    /\ entries' = BufferAdd(entries, nextId)
    /\ nextId' = nextId + 1
    /\ flushNeeded' = AddSignalsFlush(entries')
    /\ pc' = [pc EXCEPT !["sampler"] = IF flushNeeded' THEN "flush" ELSE "loop"]
    /\ UNCHANGED << tickVars, envVars, serverVars, rw, lastFlush, heap, osVars, deferVars, statVars, mainVars, sinkVars, batch, startErr, bmu, flushTimer,
                    flushChan, stopChanClosed, flushRet, drainAttempts >>

\* ------------------------------------------------------------------ the flush handler
\* flushHandler's select takes a notification from the flush channel.
HandlerNotified ==
    /\ Alive
    /\ pc["handler"] = "wait"
    /\ flushChan > 0
    /\ flushChan' = flushChan - 1
    /\ pc' = [pc EXCEPT !["handler"] = "flush"]
    /\ UNCHANGED << tickVars, envVars, serverVars, rw, lastFlush, heap, osVars, deferVars, statVars, mainVars, sinkVars, batch, startErr, entries, bmu,
                    flushTimer, stopChanClosed, flushNeeded, flushRet, nextId,
                    drainAttempts >>

\* flushHandler's select takes ctx.Done(): it returns and the deferred
\* close(done) runs.
HandlerExit ==
    /\ Alive
    /\ pc["handler"] = "wait"
    /\ ctxCancelled
    /\ pc' = [pc EXCEPT !["handler"] = "exited"]
    /\ UNCHANGED << tickVars, envVars, serverVars, rw, lastFlush, heap, osVars, deferVars, statVars, mainVars, sinkVars, batch, startErr, entries, bmu,
                    flushTimer, flushChan, stopChanClosed, flushNeeded, flushRet,
                    nextId, drainAttempts >>

\* ------------------------------------------------------------------ Monitor.flush
\* The sink Monitor.flush writes to: if m.redis != nil the stream, else the database.
FlushUsesRedis == redis

\* Mutant: GetAndClear hands the entries out and leaves them in the buffer.
GetAndClearRemaining_Keep(es) == es

\* Buffer.GetAndClear, what is left in the buffer: b.entries = make(...), a new
\* empty slice (an empty buffer stays empty).
GetAndClearRemaining(es) == << >>

\* Redis mode, Buffer.GetAndClear: under Buffer.mu, an empty buffer returns nil
\* and touches nothing; otherwise the entries are handed out, a new slice is
\* installed and the timer is reset.
GetAndClearTimer(es, timer) == IF es = << >> THEN timer ELSE resetFlushTimer

\* Mutant: lastFlush is written whether the transaction committed or not.
LastFlushAfter_Always(last, t, o) == t

\* Buffer.Flush and Buffer.ForceFlush: b.lastFlush = time.Now() after the
\* commit (flushUnsafe returning nil); an error returns before it.
LastFlushAfter(last, t, o) == IF o = "ok" THEN t ELSE last

\* Buffer.GetAndClear: b.lastFlush = time.Now() when entries were handed out.
GetAndClearLastFlush(es, last, t) == IF es = << >> THEN last ELSE t

FlushGetAndClear(t) ==
    /\ Alive
    /\ pc[t] = "flush"
    /\ FlushUsesRedis
    /\ bmu = "free"
    /\ batch' = [batch EXCEPT ![t] = entries]
    /\ entries' = GetAndClearRemaining(entries)
    /\ flushTimer' = GetAndClearTimer(entries, flushTimer)
    /\ lastFlush' = GetAndClearLastFlush(entries, lastFlush, now)
    /\ pc' = [pc EXCEPT ![t] = IF entries = << >> THEN Home(t) ELSE "publish"]
    /\ pushed' = [pushed EXCEPT ![t] = 0]
    /\ UNCHANGED << flushCount, eventsPushed, reg >>
    /\ UNCHANGED << tickVars, envVars, serverVars, rw, heap, osVars, deferVars, mainVars, sinkVars, startErr, bmu, flushChan,
                    stopChanClosed, flushNeeded, flushRet, nextId, drainAttempts >>

\* Redis mode, one iteration of the loop over the batch: PublishEvent (XADD) for
\* the next entry; an error is logged and the loop goes on with the next entry.
PublishOutcomes == IF redisHealthy THEN {"ok"} ELSE {"ok", "err"}

\* Mutant: the first failed publish aborts the batch.
BatchAfterPublish_Abort(b, o) == IF o = "ok" THEN Tail(b) ELSE << >>

\* The loop over the batch goes on to the next entry whether PublishEvent
\* returned an error or not.
BatchAfterPublish(b, o) == Tail(b)

FlushPublish(t) ==
    /\ Alive
    /\ pc[t] = "publish"
    /\ batch[t] # << >>
    /\ \E o \in PublishOutcomes :
          /\ stream' = IF o = "ok" THEN Append(stream, Head(batch[t])) ELSE stream
          /\ batch' = [batch EXCEPT ![t] = BatchAfterPublish(batch[t], o)]
          /\ pushed' = [pushed EXCEPT ![t] = IF o = "ok" THEN @ + 1 ELSE @]
    /\ attempted' = Append(attempted, Head(batch[t]))
    /\ pc' = [pc EXCEPT ![t] = IF batch'[t] # << >> THEN "publish"
                               ELSE IF pushed'[t] > 0 THEN "count" ELSE Home(t)]
    /\ reg' = [reg EXCEPT ![t] = IF pc'[t] = "count" THEN flushCount ELSE @]
    /\ UNCHANGED << tickVars, envVars, serverVars, rw, lastFlush, heap, osVars, deferVars, mainVars, dbBatches, startErr, entries, bmu, flushTimer,
                    flushChan, stopChanClosed, flushNeeded, flushRet, nextId,
                    drainAttempts, flushCount, eventsPushed >>

\* SQLite mode, Buffer.Flush up to db.Begin: Buffer.mu is taken; an empty
\* buffer returns nil at once; otherwise the transaction starts and the lock
\* stays held until Flush returns.
FlushLock(t) ==
    /\ Alive
    /\ pc[t] = "flush"
    /\ ~FlushUsesRedis
    /\ bmu = "free"
    /\ IF entries = << >>
          THEN /\ flushRet' = "nil"
               /\ pc' = [pc EXCEPT ![t] = "count"]
               /\ reg' = [reg EXCEPT ![t] = flushCount]
               /\ bmu' = bmu
          ELSE /\ flushRet' = flushRet
               /\ pc' = [pc EXCEPT ![t] = "tx"]
               /\ reg' = reg
               /\ bmu' = t
    /\ UNCHANGED << tickVars, envVars, serverVars, rw, lastFlush, heap, osVars, deferVars, flushCount, eventsPushed, pushed, mainVars, sinkVars, batch, startErr, entries, flushTimer,
                    flushChan, stopChanClosed, flushNeeded, nextId, drainAttempts >>

\* How a database transaction (Begin, Prepare, Exec per entry, Commit) can end.
TxOutcomes ==
    IF dbHealthy THEN {"ok"} ELSE {"ok", "begin", "prepare", "insert", "commit"}

\* The entry at which stmt.Exec can fail, when the transaction ends as o.
FailAt(es, o) == IF o = "insert" THEN 1..Len(es) ELSE {1}

\* Mutant: no rollback; the rows inserted before the failing Exec stay.
TxStored_NoRollback(es, o, k) ==
    IF o = "ok" THEN es ELSE IF o = "insert" THEN SubSeq(es, 1, k - 1) ELSE << >>

\* The rows of the batch es that are in raw_events after the transaction ended
\* as o (Exec failing at entry k): all of them after Commit; none after an
\* error, tx.Rollback() undoing the inserts already made (a failed Begin,
\* Prepare or Commit stores nothing).
TxStored(es, o, k) == IF o = "ok" THEN es ELSE << >>

\* raw_events after a transaction that stored rows.
TableAfterTx(table, rows) == IF rows = << >> THEN table ELSE Append(table, rows)

\* Mutant: Flush leaves the entries in the buffer after the commit.
FlushRemaining_Keep(es, o) == es

\* Mutant: Flush clears the entries before it knows the transaction's outcome.
FlushRemaining_Drop(es, o) == << >>

\* Buffer.Flush, what is left in the buffer when the transaction ended with o:
\* the entries are cleared only after Commit succeeded.
FlushRemaining(es, o) == IF o = "ok" THEN << >> ELSE es

\* Buffer.Flush, the timer when the transaction ended with o: lastFlush and the
\* timer are reset only after Commit succeeded.
FlushTimerAfter(timer, o) == IF o = "ok" THEN resetFlushTimer ELSE timer

\* SQLite mode, the rest of Buffer.Flush: the transaction ends, the deferred
\* Unlock runs, Monitor.flush returns.
FlushTx(t) ==
    /\ Alive
    /\ pc[t] = "tx"
    /\ \E o \in TxOutcomes : \E k \in FailAt(entries, o) :
          /\ dbBatches' = TableAfterTx(dbBatches, TxStored(entries, o, k))
          /\ entries' = FlushRemaining(entries, o)
          /\ flushTimer' = FlushTimerAfter(flushTimer, o)
          /\ lastFlush' = LastFlushAfter(lastFlush, now, o)
          /\ flushRet' = IF o = "ok" THEN "nil" ELSE "err"
          /\ pc' = [pc EXCEPT ![t] = IF o = "ok" THEN "count" ELSE Home(t)]
          /\ reg' = [reg EXCEPT ![t] = IF o = "ok" THEN flushCount ELSE @]
    /\ bmu' = "free"
    /\ UNCHANGED << tickVars, envVars, serverVars, rw, heap, osVars, deferVars, flushCount, eventsPushed, pushed, mainVars, stream, attempted, batch, startErr,
                    flushChan, stopChanClosed, flushNeeded, nextId, drainAttempts >>

\* Mutant: the counters are added to in one indivisible step.
CounterAfter_Atomic(loaded, current, n) == current + n

\* m.flushCount++ and m.eventsPushed += uint64(pushed) are a load, an add and
\* a store, under no lock: the value stored is the one loaded plus n, whatever
\* the counter holds by then.
CounterAfter(loaded, current, n) == loaded + n

\* Monitor.flush, after the sink call: m.flushCount++ is completed.  In Redis
\* mode m.eventsPushed is loaded next; in SQLite mode Monitor.flush returns.
CountFlush(t) ==
    /\ Alive
    /\ pc[t] = "count"
    /\ flushCount' = CounterAfter(reg[t], flushCount, 1)
    /\ pc' = [pc EXCEPT ![t] = IF FlushUsesRedis THEN "countPushed" ELSE Home(t)]
    /\ reg' = [reg EXCEPT ![t] = IF FlushUsesRedis THEN eventsPushed ELSE 0]
    /\ UNCHANGED << tickVars, envVars, serverVars, rw, lastFlush, heap, osVars, deferVars, mainVars, sinkVars, batch, startErr, entries, bmu,
                    flushTimer, flushChan, stopChanClosed, flushNeeded, flushRet, nextId,
                    drainAttempts, eventsPushed, pushed >>

\* Redis mode: m.eventsPushed += uint64(pushed) is completed and Monitor.flush
\* returns.
CountPushed(t) ==
    /\ Alive
    /\ pc[t] = "countPushed"
    /\ eventsPushed' = CounterAfter(reg[t], eventsPushed, pushed[t])
    /\ pc' = [pc EXCEPT ![t] = Home(t)]
    /\ reg' = [reg EXCEPT ![t] = 0]
    /\ pushed' = [pushed EXCEPT ![t] = 0]
    /\ UNCHANGED << tickVars, envVars, serverVars, rw, lastFlush, heap, osVars, deferVars, mainVars, sinkVars, batch, startErr, entries, bmu,
                    flushTimer, flushChan, stopChanClosed, flushNeeded, flushRet, nextId,
                    drainAttempts, flushCount >>

\* ------------------------------------------------------------------ shutdown
\* Start's select takes ctx.Done(): flushHandlerStop() does nothing, then the
\* sampler blocks on <-flushDone.
SeeCancel ==
    /\ Alive
    /\ pc["sampler"] = "loop"
    /\ ctxCancelled
    /\ pc' = [pc EXCEPT !["sampler"] = "waitDone"]
    /\ UNCHANGED << tickVars, envVars, serverVars, rw, lastFlush, heap, osVars, deferVars, statVars, mainVars, sinkVars, batch, startErr, entries, bmu,
                    flushTimer, flushChan, stopChanClosed, flushNeeded, flushRet,
                    nextId, drainAttempts >>

\* Mutant: Start does not wait for the flush handler before shutdown.
FlushDoneClosed_NoWait == TRUE

\* flushDone is closed: the flush handler has returned.
FlushDoneClosed == pc["handler"] = "exited"

WaitFlushDone ==
    /\ Alive
    /\ pc["sampler"] = "waitDone"
    /\ FlushDoneClosed
    /\ pc' = [pc EXCEPT !["sampler"] = "shutdown"]
    /\ UNCHANGED << tickVars, envVars, serverVars, rw, lastFlush, heap, osVars, deferVars, statVars, mainVars, sinkVars, batch, startErr, entries, bmu,
                    flushTimer, flushChan, stopChanClosed, flushNeeded, flushRet,
                    nextId, drainAttempts >>

\* Monitor.shutdown calls Buffer.ForceFlush(m.db), whichever sink the monitor
\* was configured with.  ForceFlush takes Buffer.mu; an empty buffer returns
\* nil at once (the timer is not touched); otherwise the timer is stopped and
\* flushUnsafe starts its transaction.
ForceFlushLock ==
    /\ Alive
    /\ pc["sampler"] = "shutdown"
    /\ bmu = "free"
    /\ drainAttempts' = drainAttempts + 1
    /\ IF entries = << >>
          THEN /\ flushRet' = "nil"
               /\ pc' = [pc EXCEPT !["sampler"] = "stop"]
               /\ UNCHANGED << bmu, flushTimer >>
          ELSE /\ flushRet' = flushRet
               /\ pc' = [pc EXCEPT !["sampler"] = "finalTx"]
               /\ bmu' = "sampler"
               /\ flushTimer' = TimerOff
    /\ UNCHANGED << tickVars, envVars, serverVars, rw, lastFlush, heap, osVars, deferVars, statVars, mainVars, sinkVars, batch, startErr, entries, flushChan,
                    stopChanClosed, flushNeeded, nextId >>

\* Mutant: ForceFlush forgets to clear the entries after a successful flush.
ForceFlushRemaining_Keep(es, o) == es

\* Buffer.ForceFlush, what is left in the buffer when flushUnsafe ended with o.
ForceFlushRemaining(es, o) == IF o = "ok" THEN << >> ELSE es

\* The rest of ForceFlush and of shutdown: on an error shutdown returns it (and
\* Start sends it on monitorDone) without calling Buffer.Stop.
ForceFlushTx ==
    /\ Alive
    /\ pc["sampler"] = "finalTx"
    /\ \E o \in TxOutcomes : \E k \in FailAt(entries, o) :
          /\ dbBatches' = TableAfterTx(dbBatches, TxStored(entries, o, k))
          /\ entries' = ForceFlushRemaining(entries, o)
          /\ lastFlush' = LastFlushAfter(lastFlush, now, o)
          /\ flushRet' = IF o = "ok" THEN "nil" ELSE "err"
          /\ startErr' = IF o = "ok" THEN startErr ELSE "err"
          /\ pc' = [pc EXCEPT !["sampler"] = IF o = "ok" THEN "stop" ELSE "returned"]
    /\ bmu' = "free"
    /\ UNCHANGED << tickVars, envVars, serverVars, rw, heap, osVars, deferVars, statVars, mainVars, stream, attempted, batch, flushTimer,
                    flushChan, stopChanClosed, flushNeeded, nextId, drainAttempts >>

\* shutdown after a successful ForceFlush: Buffer.Stop closes stopChan and stops
\* the timer; shutdown returns nil and Start sends nil on monitorDone.
BufferStop ==
    /\ Alive
    /\ pc["sampler"] = "stop"
    /\ stopChanClosed' = TRUE
    /\ flushTimer' = TimerOff
    /\ startErr' = "nil"
    /\ pc' = [pc EXCEPT !["sampler"] = "returned"]
    /\ UNCHANGED << tickVars, envVars, serverVars, rw, lastFlush, heap, osVars, deferVars, statVars, mainVars, sinkVars, batch, entries, bmu, flushChan,
                    flushNeeded, flushRet, nextId, drainAttempts >>

\* ------------------------------------------------------------------ main
\* main's first select: SIGINT/SIGTERM arrives, cancel() is called.
Signal ==
    /\ mainPc = "running"
    /\ mainPc' = "stopping"
    /\ ctxCancelled' = TRUE
    /\ UNCHANGED << tickVars, envVars, serverVars, rw, lastFlush, heap, osVars, deferVars, statVars, exitCode, exitBy, sinkVars, pc, batch, startErr, entries,
                    bmu, flushTimer, flushChan, stopChanClosed, flushNeeded, flushRet,
                    nextId, drainAttempts >>

\* Mutant: main exits with 0 whatever Start returned.
ExitCodeFor_Zero(err) == 0

\* main's second select, case err := <-monitorDone: exit 1 on an error, else 0.
\* Both cases leave through os.Exit, which runs no deferred call: closeCalls stays.
ExitCodeFor(err) == IF err = "err" THEN 1 ELSE 0

MainDone ==
    /\ mainPc = "stopping"
    /\ startErr # "none"
    /\ mainPc' = "exited"
    /\ exitCode' = ExitCodeFor(startErr)
    /\ exitBy' = "done"
    /\ UNCHANGED << tickVars, envVars, serverVars, rw, lastFlush, heap, osVars, deferVars, statVars, ctxCancelled, sinkVars, pc, batch, startErr, entries,
                    bmu, flushTimer, flushChan, stopChanClosed, flushNeeded, flushRet,
                    nextId, drainAttempts >>

\* A task is inside a call of a sink that does not answer promptly.  Everything
\* else the process does takes far less than the shutdown deadline.
SinkCallBlocked ==
    \E t \in Tasks :
        \/ pc[t] \in {"tx", "finalTx"} /\ ~dbHealthy
        \/ pc[t] = "publish" /\ ~redisHealthy

\* Mutant: main waits for monitorDone alone, without a deadline.
MainTimeout_Off == FALSE /\ UNCHANGED vars

\* main's second select, case <-time.After(30 * time.Second): exit 1.
MainTimeout ==
    /\ mainPc = "stopping"
    /\ startErr = "none"
    /\ SinkCallBlocked
    /\ mainPc' = "exited"
    /\ exitCode' = 1
    /\ exitBy' = "timeout"
    /\ UNCHANGED << tickVars, envVars, serverVars, rw, lastFlush, heap, osVars, deferVars, statVars, ctxCancelled, sinkVars, pc, batch, startErr, entries,
                    bmu, flushTimer, flushChan, stopChanClosed, flushNeeded, flushRet,
                    nextId, drainAttempts >>

\* ------------------------------------------------------------------ specification
Next ==
    \/ TimerTick
    \/ TimerFire
    \/ TickSkip
    \/ TickAdmit
    \/ TickAdd
    \/ \E t \in Tasks : CountFlush(t)
    \/ \E t \in Tasks : CountPushed(t)
    \/ HandlerNotified
    \/ HandlerExit
    \/ \E t \in Tasks : FlushGetAndClear(t)
    \/ \E t \in Tasks : FlushPublish(t)
    \/ \E t \in Tasks : FlushLock(t)
    \/ \E t \in Tasks : FlushTx(t)
    \/ SeeCancel
    \/ WaitFlushDone
    \/ ForceFlushLock
    \/ ForceFlushTx
    \/ BufferStop
    \/ Signal
    \/ MainDone
    \/ MainTimeout

Spec == Init /\ [][Next]_vars

\* A step taken while no task waits inside a sink that does not answer: the
\* scheduler runs every goroutine that can run.
PromptStep == Next /\ ~SinkCallBlocked

\* The lifecycle with its scheduling: goroutines that can run do run, a call
\* into a sink that does not answer need never return, and the two cases of
\* main's second select are taken when they are ready.
SpecLive ==
    /\ Init
    /\ [][Next]_vars
    /\ WF_vars(PromptStep)
    /\ WF_vars(MainDone)
    /\ WF_vars(MainTimeout)

\* The running program with the environment left free: goroutines that can run
\* do run (the timer callback, the flush handler, a flush under way, the
\* shutdown once it was asked for), but no tick need admit a record and no
\* signal need arrive.
SpecQuiet ==
    /\ Init
    /\ [][Next]_vars
    /\ WF_vars(PromptStep /\ ~TickAdmit /\ ~Signal)

\* ------------------------------------------------------------------ Monitor.tick in full
\* What the OS can answer to the probe calls of one tick.  An error of a call
\* is written ProbeErr (a title: TitleErr).
ProbeErr == 0 - 1
TitleErr == "<error>"
GameAnswers == {"game", "nogame", "err"}
IdleAnswers == {0, 120000, ProbeErr}
ScoreIdleAnswers == IdleAnswers \cup {4600}
HwndAnswers == {0, 1, 2}
TitleAnswers == {"A", TitleErr}
PidAnswers == {0, 7}
InputTickAnswers == {1, 2, ProbeErr}

\* tick, step 1: isGame, err := win32.IsGameRunning(); err == nil && isGame.
GameGate(g) == g = "game"

\* Mutant: the game gate forgets to count the skipped tick.
SkippedAfterGate_Forget(n) == n

\* tick, step 1: m.skippedTicks++.
SkippedAfterGate(n) == n + 1

\* tick, step 2: an error of GetIdleTime is logged and idleTime = 0.
IdleTimeOf(i) == IF i = ProbeErr THEN 0 ELSE i

IsIdle(idleTime) == idleTime >= IdleThreshold

\* Mutant: the failed GetWindowText is not replaced by a default.
WindowTitleOf_Raw(t) == t

\* tick: GetWindowText failed -> "Unknown".
WindowTitleOf(t) == IF t = TitleErr THEN "Unknown" ELSE t

\* Mutant: the score is not cut off at zero.
InputScore_NoClamp(isIdle, inputTick, lastTick, idle2) ==
    IF isIdle \/ inputTick = ProbeErr \/ inputTick = lastTick
       THEN 0
       ELSE ScoreWindow - IdleTimeOf(idle2)

\* calculateInputScore, times ScoreWindow (the score is 1 - idle/5000): 0 when
\* idle, when GetLastInputInfo fails or when the input tick is the one seen at
\* the previous call; idle2 is the second GetIdleTime, whose error is ignored.
InputScore(isIdle, inputTick, lastTick, idle2) ==
    IF isIdle \/ inputTick = ProbeErr \/ inputTick = lastTick
       THEN 0
       ELSE IF IdleTimeOf(idle2) >= ScoreWindow THEN 0 ELSE ScoreWindow - IdleTimeOf(idle2)

\* calculateInputScore: State.LastInputTick is written when a new tick value is seen.
InputTickAfter(isIdle, inputTick, lastTick) ==
    IF isIdle \/ inputTick = ProbeErr \/ inputTick = lastTick THEN lastTick ELSE inputTick

\* Mutant: the gate does not look at the time of the last screenshot.
ScreenshotGate_NoInterval(isIdle, n, lastShot, interval) == ~isIdle

\* tick, step 4.5: the screenshot gate.
ScreenshotGate(isIdle, n, lastShot, interval) == ~isIdle /\ n - lastShot >= interval

\* Mutant: the time rule waits one tick period longer.
ShouldLog_LateTimeRule(st, hwnd, title, proc, n, isIdle, score, shot) ==
    \/ st.LastWindowHandle # hwnd
    \/ st.LastWindowTitle # title
    \/ st.LastProcessName # proc
    \/ n - st.LastTickTime > TimePassedAfter + TickPeriod
    \/ (~isIdle /\ 10 * score > ScoreWindow)
    \/ shot

\* Mutant: the time since the last admission does not admit a record.
ShouldLog_NoTimeRule(st, hwnd, title, proc, n, isIdle, score, shot) ==
    \/ st.LastWindowHandle # hwnd
    \/ st.LastWindowTitle # title
    \/ st.LastProcessName # proc
    \/ (~isIdle /\ 10 * score > ScoreWindow)
    \/ shot

\* Mutant: a captured screenshot alone does not admit a record.
ShouldLog_NoShot(st, hwnd, title, proc, n, isIdle, score, shot) ==
    \/ st.LastWindowHandle # hwnd
    \/ st.LastWindowTitle # title
    \/ st.LastProcessName # proc
    \/ n - st.LastTickTime > TimePassedAfter
    \/ (~isIdle /\ 10 * score > ScoreWindow)

\* tick, step 5: the admission predicate (inputScore > 0.1, the score times ScoreWindow).
ShouldLog(st, hwnd, title, proc, n, isIdle, score, shot) ==
    \/ st.LastWindowHandle # hwnd
    \/ st.LastWindowTitle # title
    \/ st.LastProcessName # proc
    \/ n - st.LastTickTime > TimePassedAfter
    \/ (~isIdle /\ 10 * score > ScoreWindow)
    \/ shot

\* Mutant: the marker is written only for a record without a screenshot.
LogEntry_MarkerLost(n, proc, title, hwnd, idleTime, score, shot) ==
    [ SessionUUID    |-> "default-session",
      UnixTime       |-> n,
      ProcessName    |-> proc,
      WindowTitle    |-> title,
      WindowHandle   |-> hwnd,
      InputIdleMs    |-> idleTime,
      InputIntensity |-> score,
      ScreenshotPath |-> IF shot THEN "" ELSE "RAM",
      ScreenshotData |-> shot ]

\* tick: the entry handed to Buffer.Add.
LogEntry(n, proc, title, hwnd, idleTime, score, shot) ==
    [ SessionUUID    |-> "default-session",
      UnixTime       |-> n,
      ProcessName    |-> proc,
      WindowTitle    |-> title,
      WindowHandle   |-> hwnd,
      InputIdleMs    |-> idleTime,
      InputIntensity |-> score,
      ScreenshotPath |-> "RAM",
      ScreenshotData |-> shot ]

\* IsGameRunning has an answer that makes the gate come out as b.
GameMay(b) == {g \in GameAnswers : GameGate(g) = b} # {}

\* Start's select can take ticker.C.
TickReady == Alive /\ pc["sampler"] = "loop"

\* The publishes of a batch of n entries that can succeed together.
PublishSets(n) == IF redisHealthy THEN {1..n} ELSE SUBSET (1..n)

\* The entries of es whose index is in ok, in order.
Published(es, ok) == SelectSeq([i \in 1..Len(es) |-> << i, es[i] >>], LAMBDA p : p[1] \in ok)

\* Monitor.flush called from the tick, to completion: in Redis mode
\* GetAndClear and one publish per entry (those in ok succeed); in SQLite mode
\* Buffer.Flush with the transaction ending as o (Exec failing at entry k);
\* then the counters, which no other task touches in between.
TickFlush(es, o, k, ok) ==
    IF FlushUsesRedis
       THEN /\ entries' = GetAndClearRemaining(es)
            /\ stream' = stream \o [i \in 1..Len(Published(es, ok)) |-> Published(es, ok)[i][2]]
            /\ attempted' = attempted \o es
            /\ flushTimer' = GetAndClearTimer(es, flushTimer)
            /\ lastFlush' = GetAndClearLastFlush(es, lastFlush, now + TickInterval)
            /\ flushCount' = IF Len(Published(es, ok)) > 0 THEN flushCount + 1 ELSE flushCount
            /\ eventsPushed' = eventsPushed + Len(Published(es, ok))
            /\ UNCHANGED << dbBatches, flushRet >>
       ELSE /\ entries' = FlushRemaining(es, o)
            /\ dbBatches' = TableAfterTx(dbBatches, TxStored(es, o, k))
            /\ flushTimer' = FlushTimerAfter(flushTimer, o)
            /\ lastFlush' = LastFlushAfter(lastFlush, now + TickInterval, o)
            /\ flushRet' = IF o = "ok" THEN "nil" ELSE "err"
            /\ flushCount' = IF o = "ok" THEN flushCount + 1 ELSE flushCount
            /\ UNCHANGED << stream, attempted, eventsPushed >>

\* A tick the game gate stops: tickCount++, skippedTicks++, return.  At most
\* MaxSkipped of them are taken in one run.
TickGame ==
    /\ TickReady
    /\ skippedTicks < MaxSkipped
    /\ GameMay(TRUE)
    /\ tickCount' = tickCount + 1
    /\ now' = now + TickInterval
    /\ skippedTicks' = SkippedAfterGate(skippedTicks)
    /\ lastGate' = "game"
    /\ gameRun' = gameRun + 1
    /\ tickEntry' = NoEntry
    /\ probe' = NoProbe
    /\ UNCHANGED << envVars, serverVars, rw, lastFlush, heap, osVars, deferVars, statVars, lifeVars, sinkVars, entries, flushTimer, flushNeeded,
                    flushRet, nextId, shotInterval, idleTicks, mstate, shots, runBase >>

\* Mutant: GetForegroundWindow never reports an error.
NoWindow_Never(hwnd) == FALSE

\* win32.GetForegroundWindow: a zero handle is returned as an error, on which
\* the tick returns.
NoWindow(hwnd) == hwnd = 0

\* What the tick read, for the record of the run.
ProbeOf(hwnd, title, proc, idleTime, inputTick, idle2, score, shot) ==
    [ hwnd |-> hwnd, title |-> title, proc |-> proc, idleTime |-> idleTime,
      inputTick |-> inputTick, idle2 |-> idle2, score |-> score, shot |-> shot ]

\* A tick past the game gate, to its return, with the OS answering from the
\* given sets.  A probe call the tick does not make has one (unused) answer.
TickBody(Idle, Hwnd, Title, Pid, InputTick, Idle2) ==
    /\ \E idle \in Idle, hwnd \in Hwnd :
       \E title \in IF NoWindow(hwnd) THEN {TitleErr} ELSE Title,
          pid \in IF NoWindow(hwnd) THEN {0} ELSE Pid,
          inputTick \in IF NoWindow(hwnd) \/ IsIdle(IdleTimeOf(idle)) THEN {ProbeErr} ELSE InputTick :
       \E idle2 \in IF inputTick = ProbeErr \/ inputTick = mstate.LastInputTick
                       THEN {ProbeErr} ELSE Idle2,
          shotOk \in IF ~NoWindow(hwnd) /\ ScreenshotGate(IsIdle(IdleTimeOf(idle)), now + TickInterval,
                                                  mstate.LastScreenshotTime, shotInterval)
                        THEN BOOLEAN ELSE {FALSE} :
        LET n == now + TickInterval
            idleTime == IdleTimeOf(idle)
            isIdle == IsIdle(idleTime)
            windowTitle == WindowTitleOf(title)
            processName == ProcessNameOf(pid)
            score == InputScore(isIdle, inputTick, mstate.LastInputTick, idle2)
            shot == ScreenshotGate(isIdle, n, mstate.LastScreenshotTime, shotInterval) /\ shotOk
            st1 == [mstate EXCEPT
                      !.LastInputTick = InputTickAfter(isIdle, inputTick, @),
                      !.LastScreenshotTime = IF shot THEN n ELSE @]
            shouldLog == ShouldLog(st1, hwnd, windowTitle, processName, n, isIdle, score, shot)
            added == BufferAdd(entries, nextId)
        IN  /\ tickCount' = tickCount + 1
            /\ now' = n
            /\ idleTicks' = IF isIdle THEN idleTicks + 1 ELSE idleTicks
            /\ gameRun' = 0
            /\ UNCHANGED << envVars, serverVars, rw, heap, osVars, deferVars, reg, pushed, lifeVars, shotInterval, skippedTicks >>
            /\ IF NoWindow(hwnd)
                  THEN /\ lastGate' = "nowindow"
                       /\ tickEntry' = NoEntry
                       /\ probe' = NoProbe
                       /\ UNCHANGED << mstate, shots, entries, nextId, flushNeeded,
                                       flushRet, flushTimer, sinkVars, flushCount,
                                       eventsPushed, lastFlush >>
                  ELSE /\ shots' = IF shot THEN shots + 1 ELSE shots
                       /\ probe' = ProbeOf(hwnd, windowTitle, processName, idleTime,
                                           inputTick, idle2, score, shot)
                       /\ IF ~shouldLog
                             THEN /\ lastGate' = "nolog"
                                  /\ mstate' = st1
                                  /\ tickEntry' = NoEntry
                                  /\ UNCHANGED << entries, nextId, flushNeeded, flushRet,
                                                  flushTimer, sinkVars, flushCount,
                                                  eventsPushed, lastFlush >>
                             ELSE /\ lastGate' = "logged"
                                  /\ tickEntry' = LogEntry(n, processName, windowTitle, hwnd,
                                                           idleTime, score, shot)
                                  /\ mstate' = [st1 EXCEPT
                                                  !.LastWindowHandle = hwnd,
                                                  !.LastWindowTitle = windowTitle,
                                                  !.LastProcessName = processName,
                                                  !.LastTickTime = n]
                                  /\ nextId' = nextId + 1
                                  /\ flushNeeded' = AddSignalsFlush(added)
                                  /\ IF flushNeeded'
                                        THEN \E o \in TxOutcomes, ok \in PublishSets(Len(added)) :
                                                \E k \in FailAt(added, o) :
                                                   TickFlush(added, o, k, ok)
                                        ELSE /\ entries' = added
                                             /\ UNCHANGED << flushRet, flushTimer, sinkVars,
                                                             flushCount, eventsPushed, lastFlush >>
            /\ runBase' = << skippedTicks', nextId', shots', mstate' >>

\* A tick that passes the game gate; at most MaxTicks of them are taken in
\* one run.
TickProbe ==
    /\ TickReady
    /\ tickCount - skippedTicks < MaxTicks
    /\ GameMay(FALSE)
    /\ TickBody(IdleAnswers, HwndAnswers, TitleAnswers, PidAnswers, InputTickAnswers,
                ScoreIdleAnswers)

NextTick == TickGame \/ TickProbe

\* The sampler alone, with sinks that accept every write: ticks with the
\* probe's answers in full, no signal, and the flush handler never notified
\* (the timer does not run).  The screenshot interval is the one cmd/watcher
\* passes or the one of DefaultConfig.
InitTick ==
    /\ redis \in BOOLEAN
    /\ dbHealthy = TRUE
    /\ redisHealthy = TRUE
    /\ surplusArg = "ignored"
    /\ scenario = "none"
    /\ mainPc = "running"
    /\ exitCode = -1
    /\ exitBy = "none"
    /\ ctxCancelled = FALSE
    /\ pc = [t \in Tasks |-> Home(t)]
    /\ batch = [t \in Tasks |-> << >>]
    /\ startErr = "none"
    /\ BufferInit
    /\ flushNeeded = FALSE
    /\ flushRet = "none"
    /\ dbBatches = << >>
    /\ stream = << >>
    /\ attempted = << >>
    /\ nextId = 1
    /\ drainAttempts = 0
    /\ shotInterval \in {MainScreenshotInterval, DefaultScreenshotInterval}
    /\ MonitorInit
    /\ OsInit
    /\ DeferInit
    /\ StatInit
    /\ ServerInit({NodeEntries})

SpecTick == InitTick /\ [][NextTick]_vars

\* ------------------------------------------------------------------ scripted runs of the sampler
\* Runs in which the probe's answers follow a script tick by tick: the
\* scenarios of the specification, from a monitor just built.

\* The number of ticks, one TickPeriod apart, that fit in the time the
\* admission predicate lets pass: the length of the scenarios' runs.
RunLen == TimePassedAfter \div TickPeriod

\* Ticks taken in one scripted run: the longest script.
ScenLen == RunLen + 2

\* "S1": one window, idle for RunLen ticks, then a tick with idle_ms = 0.
\* "S1after": the same after a first tick that admits the window.
\* "S2": one window for RunLen ticks, then another handle and title, not idle.
\* "S3": a window that changes on every tick.
\* "S3fail": as S3, not idle, with sinks that may fail any write.
\* "Shots": one window, no new input, a screenshot interval of two tick
\* periods, and a game that may run at any tick.
\* "Fast": one window, not idle, no new input, the watcher started with
\* -tick 200ms and nothing else.
Scenarios == {"S1", "S1after", "S2", "S3", "S3fail", "Shots", "Fast"}

\* The ticks of the run whose answers the script fixes.
Scripted(sc, k) ==
    CASE sc = "S1" -> k <= RunLen + 1
      [] sc = "S1after" -> k <= RunLen + 2
      [] sc = "S2" -> k <= RunLen + 1
      [] sc = "S3" -> TRUE
      [] sc = "S3fail" -> TRUE
      [] sc = "Shots" -> TRUE
      [] sc = "Fast" -> TRUE
      [] OTHER -> FALSE

\* GetIdleTime at tick k.
ScenIdle(sc, k) ==
    CASE sc = "S1" /\ k <= RunLen -> {120000}
      [] sc = "S1" /\ k = RunLen + 1 -> {0}
      [] sc = "S1after" /\ k \in 2..(RunLen + 1) -> {120000}
      [] sc = "S1after" /\ k = RunLen + 2 -> {0}
      [] sc = "S2" /\ k <= RunLen + 1 -> {0}
      [] sc = "S3fail" -> {0}
      [] sc = "Fast" -> {0}
      [] OTHER -> {0, 120000}

\* GetForegroundWindow at tick k.
ScenHwnd(sc, k) ==
    IF ~Scripted(sc, k) THEN HwndAnswers
    ELSE IF sc = "S2" /\ k = RunLen + 1 THEN {2}
    ELSE IF sc \in {"S3", "S3fail"} THEN {1 + (k % 2)}
    ELSE {1}

\* GetWindowText at tick k.
ScenTitle(sc, k) ==
    IF ~Scripted(sc, k) THEN TitleAnswers
    ELSE IF sc = "S2" /\ k = RunLen + 1 THEN {"B"}
    ELSE {"A"}

\* GetWindowThreadProcessId at tick k.
ScenPid(sc, k) == IF ~Scripted(sc, k) THEN PidAnswers ELSE {7}

\* GetLastInputInfo during the run.
ScenInputTick(sc) == IF sc \in {"S3fail", "Shots", "Fast"} THEN {1} ELSE InputTickAnswers

\* GetIdleTime inside calculateInputScore during the run.
ScenIdle2(sc) == IF sc \in {"S3fail", "Shots", "Fast"} THEN {0} ELSE ScoreIdleAnswers

\* Config.ScreenshotInterval of the run: what cmd/watcher passes, or two tick periods.
ScenShotInterval(sc) == IF sc = "Shots" THEN 2 * TickPeriod ELSE MainScreenshotInterval

\* The k-th tick of the run, no game running.
ScenTick ==
    /\ TickReady
    /\ tickCount < ScenLen
    /\ GameMay(FALSE)
    /\ TickBody(ScenIdle(scenario, tickCount + 1), ScenHwnd(scenario, tickCount + 1),
                ScenTitle(scenario, tickCount + 1), ScenPid(scenario, tickCount + 1),
                ScenInputTick(scenario), ScenIdle2(scenario))

\* The k-th tick of the run, stopped by the game gate.
ScenGame ==
    /\ scenario = "Shots"
    /\ tickCount < ScenLen
    /\ TickGame

NextScen == ScenTick \/ ScenGame

\* As InitTick, with a script chosen, the sinks healthy unless the script says
\* otherwise, and the configuration of cmd/watcher.
InitScen ==
    /\ redis \in BOOLEAN
    /\ scenario \in Scenarios
    /\ dbHealthy = (scenario # "S3fail")
    /\ redisHealthy = (scenario # "S3fail")
    /\ surplusArg = "ignored"
    /\ mainPc = "running"
    /\ exitCode = -1
    /\ exitBy = "none"
    /\ ctxCancelled = FALSE
    /\ pc = [t \in Tasks |-> Home(t)]
    /\ batch = [t \in Tasks |-> << >>]
    /\ startErr = "none"
    /\ BufferInit
    /\ flushNeeded = FALSE
    /\ flushRet = "none"
    /\ dbBatches = << >>
    /\ stream = << >>
    /\ attempted = << >>
    /\ nextId = 1
    /\ drainAttempts = 0
    /\ shotInterval = ScenShotInterval(scenario)
    /\ MonitorInit
    /\ OsInit
    /\ DeferInit
    /\ StatInit
    /\ ServerInit({NodeEntries})

SpecScen == InitScen /\ [][NextScen]_vars

\* ------------------------------------------------------------------ the rows Flush writes
\* The buffer alone with records in full and a database that holds raw_events
\* with every column the INSERT names, as the buffer's tests use it.

\* A value handed to the driver or stored in a column, with its SQLite class.
Text(v) == << "text", v >>
Integer(v) == << "integer", v >>
\* A float; v is the number times ScoreWindow.
Real(v) == << "real", v >>

\* The columns the INSERT of Flush and of flushUnsafe has a placeholder for, in
\* the order of the column list (timestamp_utc is datetime('now')).
InsertColumns ==
    << "session_uuid", "unix_time", "process_name", "window_title", "window_hwnd",
       "input_idle_ms", "input_intensity", "screenshot_path" >>

\* Mutant: Flush passes the same arguments as flushUnsafe.
FlushArgs_Declared(e) ==
    << Text(e.SessionUUID), Integer(e.UnixTime), Text(e.ProcessName), Text(e.WindowTitle),
       Integer(e.WindowHandle), Integer(e.InputIdleMs), Real(e.InputIntensity),
       Text(e.ScreenshotPath) >>

\* Buffer.Flush: the arguments of stmt.Exec; entry.InputIdleMs is passed twice.
FlushArgs(e) ==
    << Text(e.SessionUUID), Integer(e.UnixTime), Text(e.ProcessName), Text(e.WindowTitle),
       Integer(e.WindowHandle), Integer(e.InputIdleMs), Integer(e.InputIdleMs),
       Real(e.InputIntensity), Text(e.ScreenshotPath) >>

\* Buffer.flushUnsafe: the arguments of stmt.Exec.
UnsafeArgs(e) ==
    << Text(e.SessionUUID), Integer(e.UnixTime), Text(e.ProcessName), Text(e.WindowTitle),
       Integer(e.WindowHandle), Integer(e.InputIdleMs), Real(e.InputIntensity),
       Text(e.ScreenshotPath) >>

\* What the drivers at hand do with more arguments than placeholders: refuse
\* the Exec, or bind the first ones and ignore the rest.
SurplusArgModes == {"rejected", "ignored"}

\* stmt.Exec succeeds for these arguments.
ExecAccepts(args) == Len(args) = Len(InsertColumns) \/ (Len(args) > Len(InsertColumns) /\ surplusArg = "ignored")

\* SQLite's column affinity: an integer stored in the REAL column
\* input_intensity becomes a float, a number stored in the TEXT column
\* screenshot_path becomes its text.
Stored(col, v) ==
    IF col = "input_intensity" /\ v[1] = "integer" THEN Real(v[2] * ScoreWindow)
    ELSE IF col = "screenshot_path" /\ v[1] # "text" THEN Text(v)
    ELSE v

\* The row an accepted Exec inserts: the i-th argument goes to the i-th placeholder.
RowOf(args) ==
    [c \in {InsertColumns[i] : i \in DOMAIN InsertColumns} |->
        LET i == CHOOSE j \in DOMAIN InsertColumns : InsertColumns[j] = c
        IN  Stored(c, args[i])]

\* The rows of a batch, from the arguments of its Execs.
RowsOf(argss) == [i \in DOMAIN argss |-> RowOf(argss[i])]

\* The values the fields of the records take in SpecRow.
RowIdleAnswers == {0, 1500}
RowScoreAnswers == {0, 2500}

\* The test's record number n: the handle is the number, as in TestBufferFlush.
RowEntry(n, idleTime, score) ==
    LogEntry(n, "test.exe", "Test Window", n, idleTime, score, FALSE)

\* buf.Add(entry), a millisecond after the call before it.
RowAdd ==
    /\ nextId <= MaxAdds
    /\ \E idleTime \in RowIdleAnswers, score \in RowScoreAnswers :
          entries' = BufferAdd(entries, RowEntry(nextId, idleTime, score))
    /\ nextId' = nextId + 1
    /\ flushNeeded' = AddSignalsFlush(entries')
    /\ lastGate' = "add"
    /\ now' = now + 1
    /\ UNCHANGED << envVars, serverVars, rw, lastFlush, heap, osVars, deferVars, statVars, lifeVars, sinkVars, flushTimer, flushRet, shotInterval,
                    tickCount, skippedTicks, idleTicks, mstate, shots, tickEntry, probe,
                    gameRun, runBase >>

\* buf.Flush(db): nil at once on an empty buffer; else one transaction, which
\* fails at the first Exec the driver refuses.
RowFlush ==
    /\ lastGate' = "flush"
    /\ IF entries = << >>
          THEN /\ flushRet' = "nil"
               /\ UNCHANGED << entries, dbBatches, flushTimer, lastFlush >>
          ELSE LET o == IF \A i \in DOMAIN entries : ExecAccepts(FlushArgs(entries[i]))
                           THEN "ok" ELSE "insert"
               IN  /\ flushRet' = IF o = "ok" THEN "nil" ELSE "err"
                   /\ dbBatches' = TableAfterTx(dbBatches, TxStored(RowsOf([i \in DOMAIN entries |-> FlushArgs(entries[i])]), o, 1))
                   /\ entries' = FlushRemaining(entries, o)
                   /\ flushTimer' = FlushTimerAfter(flushTimer, o)
                   /\ lastFlush' = LastFlushAfter(lastFlush, now, o)
    /\ UNCHANGED << envVars, serverVars, rw, heap, osVars, deferVars, statVars, lifeVars, stream, attempted, nextId, flushNeeded, shotInterval,
                    now, tickCount, skippedTicks, idleTicks, mstate, shots, tickEntry,
                    probe, gameRun, runBase >>

\* buf.ForceFlush(db): nil at once on an empty buffer; else the timer is
\* stopped and flushUnsafe runs its transaction.
RowForceFlush ==
    /\ lastGate' = "forceflush"
    /\ IF entries = << >>
          THEN /\ flushRet' = "nil"
               /\ UNCHANGED << entries, dbBatches, flushTimer, lastFlush >>
          ELSE LET o == IF \A i \in DOMAIN entries : ExecAccepts(UnsafeArgs(entries[i]))
                           THEN "ok" ELSE "insert"
               IN  /\ flushRet' = IF o = "ok" THEN "nil" ELSE "err"
                   /\ dbBatches' = TableAfterTx(dbBatches, TxStored(RowsOf([i \in DOMAIN entries |-> UnsafeArgs(entries[i])]), o, 1))
                   /\ entries' = ForceFlushRemaining(entries, o)
                   /\ flushTimer' = TimerOff
                   /\ lastFlush' = LastFlushAfter(lastFlush, now, o)
    /\ UNCHANGED << envVars, serverVars, rw, heap, osVars, deferVars, statVars, lifeVars, stream, attempted, nextId, flushNeeded, shotInterval,
                    now, tickCount, skippedTicks, idleTicks, mstate, shots, tickEntry,
                    probe, gameRun, runBase >>

NextRow == RowAdd \/ RowFlush \/ RowForceFlush

\* A buffer from New, an empty table, either kind of driver.
InitRow ==
    /\ redis = FALSE
    /\ dbHealthy = TRUE
    /\ redisHealthy = TRUE
    /\ surplusArg \in SurplusArgModes
    /\ scenario = "none"
    /\ mainPc = "running"
    /\ exitCode = -1
    /\ exitBy = "none"
    /\ ctxCancelled = FALSE
    /\ pc = [t \in Tasks |-> Home(t)]
    /\ batch = [t \in Tasks |-> << >>]
    /\ startErr = "none"
    /\ BufferInit
    /\ flushNeeded = FALSE
    /\ flushRet = "none"
    /\ dbBatches = << >>
    /\ stream = << >>
    /\ attempted = << >>
    /\ nextId = 1
    /\ drainAttempts = 0
    /\ shotInterval = MainScreenshotInterval
    /\ MonitorInit
    /\ OsInit
    /\ DeferInit
    /\ StatInit
    /\ ServerInit({NodeEntries})

SpecRow == InitRow /\ [][NextRow]_vars

\* ------------------------------------------------------------------ win32.GetIdleTime
\* The OS tick counter, the tick of the last input event and GetIdleTime, with
\* the counter TickBits wide.

\* The number of values of a uint32 (here: of TickBits bits).
TickModulus == 2 ^ TickBits

\* 0xFFFFFFFF.
MaxUint == TickModulus - 1

\* Mutant: the subtraction of two uint32 alone, without the branch.
GetIdleTime_Plain(current, lastInput) == (current - lastInput + TickModulus) % TickModulus

\* GetIdleTime: if current < lastInput { current += 0xFFFFFFFF }; return
\* current - lastInput, all in uint32.
GetIdleTime(current, lastInput) ==
    LET c == IF current < lastInput THEN (current + MaxUint) % TickModulus ELSE current
    IN  (c - lastInput + TickModulus) % TickModulus

\* A millisecond passes: the counter advances and wraps; the time since the
\* last input stays below the counter's range.
ClockAdvance ==
    /\ tickRead.elapsed < TickModulus - 1
    /\ tickRead' = [tickRead EXCEPT !.tick = (@ + 1) % TickModulus,
                                    !.elapsed = @ + 1,
                                    !.idle = NoIdle]
    /\ UNCHANGED << envVars, serverVars, rw, lastFlush, heap, deferVars, statVars, lifeVars, sinkVars, entries, flushTimer, flushNeeded, flushRet,
                    nextId, shotInterval, now, tickCount, skippedTicks, idleTicks, mstate,
                    shots, tickEntry, probe, lastGate, gameRun, runBase >>

\* The user touches the keyboard or the mouse: LASTINPUTINFO.dwTime is the counter's value.
InputEvent ==
    /\ tickRead' = [tickRead EXCEPT !.lastInput = tickRead.tick, !.elapsed = 0, !.idle = NoIdle]
    /\ UNCHANGED << envVars, serverVars, rw, lastFlush, heap, deferVars, statVars, lifeVars, sinkVars, entries, flushTimer, flushNeeded, flushRet,
                    nextId, shotInterval, now, tickCount, skippedTicks, idleTicks, mstate,
                    shots, tickEntry, probe, lastGate, gameRun, runBase >>

\* A call of GetIdleTime that reads both values.
IdleCall ==
    /\ tickRead' = [tickRead EXCEPT !.idle = GetIdleTime(tickRead.tick, tickRead.lastInput)]
    /\ UNCHANGED << envVars, serverVars, rw, lastFlush, heap, deferVars, statVars, lifeVars, sinkVars, entries, flushTimer, flushNeeded, flushRet,
                    nextId, shotInterval, now, tickCount, skippedTicks, idleTicks, mstate,
                    shots, tickEntry, probe, lastGate, gameRun, runBase >>

NextIdle == ClockAdvance \/ InputEvent \/ IdleCall

SpecIdle == InitTick /\ [][NextIdle]_vars

\* ------------------------------------------------------------------ the stream at the server
\* RedisClient.PublishEvent: MaxLen: 5000.
MaxLen == 5000

\* Monitor.flush: m.redis.PublishEvent(ctx, "mnemosyne:events", data).
StreamName == "mnemosyne:events"

\* Mutant: PublishEvent sets no MaxLen.
XAddArgs_NoCap(name) == [ Stream |-> name, MaxLen |-> 0, Approx |-> TRUE ]

\* RedisClient.PublishEvent: the XAddArgs it builds for the stream it is given.
XAddArgs(name) == [ Stream |-> name, MaxLen |-> MaxLen, Approx |-> TRUE ]

\* The server appends an entry: into the last node while it has room, else
\* into a new node.
ServerAppend(ns, cap) ==
    IF ns = << >> \/ ns[Len(ns)] >= cap
       THEN Append(ns, 1)
       ELSE [ns EXCEPT ![Len(ns)] = @ + 1]

\* The server trims a stream of len entries in nodes ns to the cap of the
\* call: nothing without a cap or within it; with Approx only whole nodes are
\* removed, oldest first, and only while the stream keeps at least MaxLen
\* entries; without Approx the oldest entries go one node or part of a node at
\* a time.  The result is the nodes and the length.
RECURSIVE ServerTrim(_, _, _)
ServerTrim(ns, len, args) ==
    IF args.MaxLen = 0 \/ len <= args.MaxLen
       THEN << ns, len >>
       ELSE IF len - Head(ns) >= args.MaxLen
               THEN ServerTrim(Tail(ns), len - Head(ns), args)
               ELSE IF args.Approx
                       THEN << ns, len >>
                       ELSE << << Head(ns) - (len - args.MaxLen) >> \o Tail(ns), args.MaxLen >>

\* The number of successful publishes followed: N much larger than MaxLen.
ManyPublishes == 4 * MaxLen

\* The node sizes of the servers considered.
NodeCaps == {NodeEntries \div 2, NodeEntries}

\* One PublishEvent that succeeds: XADD with the arguments PublishEvent
\* builds; the server appends the entry and trims.
StreamPublish ==
    /\ redis
    /\ xstream.xadds < ManyPublishes
    /\ LET args == XAddArgs(StreamName)
           appended == ServerAppend(xstream.nodes, xstream.cap)
           trimmed == ServerTrim(appended, xstream.len + 1, args)
       IN  xstream' = [xstream EXCEPT !.nodes = trimmed[1], !.len = trimmed[2],
                                      !.xadds = @ + 1, !.call = args]
    /\ UNCHANGED << envVars, osVars, deferVars, statVars, lifeVars, sinkVars, entries, flushTimer,
                    flushNeeded, flushRet, nextId, tickVars, lastFlush, heap, rw >>

NextStream == StreamPublish

\* A monitor in Redis mode and a server with one of the node sizes.
InitStream ==
    /\ redis = TRUE
    /\ dbHealthy = TRUE
    /\ redisHealthy = TRUE
    /\ surplusArg = "ignored"
    /\ scenario = "none"
    /\ mainPc = "running"
    /\ exitCode = -1
    /\ exitBy = "none"
    /\ ctxCancelled = FALSE
    /\ pc = [t \in Tasks |-> Home(t)]
    /\ batch = [t \in Tasks |-> << >>]
    /\ startErr = "none"
    /\ BufferInit
    /\ flushNeeded = FALSE
    /\ flushRet = "none"
    /\ dbBatches = << >>
    /\ stream = << >>
    /\ attempted = << >>
    /\ nextId = 1
    /\ drainAttempts = 0
    /\ shotInterval = MainScreenshotInterval
    /\ MonitorInit
    /\ OsInit
    /\ DeferInit
    /\ StatInit
    /\ ServerInit(NodeCaps)

SpecStream == InitStream /\ [][NextStream]_vars

\* ------------------------------------------------------------------ the buffer's storage
\* Go slices: a slice is an array and a length; the arrays are heap.arr, the
\* records are their admission numbers, 0 is the zero LogEntry.  heap.ent is
\* Buffer.entries, heap.out the slice the latest GetAndClear or GetEntries
\* returned (array 0: nil), heap.ret the records the caller found in it at
\* the return.

\* Buffer.Add, b.entries = append(b.entries, entry): the entry is written
\* behind the last one while the array has room; else the entries move to a
\* new array of twice the capacity.
GoAppend(h, e) ==
    LET a == h.ent.a
        n == h.ent.n
        new == CHOOSE i \in DOMAIN h.arr : i \notin {a, h.out.a}
    IN  IF n < Len(h.arr[a])
           THEN [h EXCEPT !.arr[a][n + 1] = e, !.ent.n = n + 1]
           ELSE [h EXCEPT !.arr[new] = [j \in 1..(2 * Len(h.arr[a])) |->
                                           IF j <= n THEN h.arr[a][j] ELSE IF j = n + 1 THEN e ELSE 0],
                          !.ent = [a |-> new, n |-> n + 1]]

\* buf.Add(entry) on a buffer used directly.
HeapAdd ==
    /\ Alive
    /\ nextId <= MaxAdds
    /\ heap' = GoAppend(heap, nextId)
    /\ entries' = BufferAdd(entries, nextId)
    /\ flushNeeded' = AddSignalsFlush(entries')
    /\ nextId' = nextId + 1
    /\ UNCHANGED << envVars, serverVars, rw, lastFlush, osVars, deferVars, statVars, lifeVars, sinkVars,
                    flushTimer, flushRet, tickVars >>

\* buf.GetAndClear(): nil on an empty buffer; else the caller gets b.entries
\* itself and the buffer a new array, make([]LogEntry, 0, Capacity).
HeapGetAndClear ==
    /\ Alive
    /\ LET new == CHOOSE i \in DOMAIN heap.arr : i # heap.ent.a
       IN  heap' = IF entries = << >>
                      THEN [heap EXCEPT !.out = [a |-> 0, n |-> 0], !.ret = << >>]
                      ELSE [heap EXCEPT !.out = heap.ent, !.ret = entries,
                                        !.arr[new] = [j \in 1..Capacity |-> 0],
                                        !.ent = [a |-> new, n |-> 0]]
    /\ entries' = GetAndClearRemaining(entries)
    /\ flushTimer' = GetAndClearTimer(entries, flushTimer)
    /\ lastFlush' = GetAndClearLastFlush(entries, lastFlush, now)
    /\ UNCHANGED << envVars, serverVars, rw, osVars, deferVars, statVars, lifeVars, sinkVars,
                    flushNeeded, nextId, flushRet, tickVars >>

\* Mutant: GetEntries returns b.entries itself.
HeapGetEntries_NoCopy ==
    /\ Alive
    /\ heap' = [heap EXCEPT !.out = heap.ent, !.ret = entries]
    /\ UNCHANGED << envVars, serverVars, rw, lastFlush, osVars, deferVars, statVars, lifeVars, sinkVars,
                    entries, flushTimer, flushNeeded, nextId, flushRet, tickVars >>

\* buf.GetEntries(): copies := make([]LogEntry, len(b.entries)), then
\* copy(copies, b.entries).
HeapGetEntries ==
    /\ Alive
    /\ LET new == CHOOSE i \in DOMAIN heap.arr : i # heap.ent.a
       IN  heap' = [heap EXCEPT !.arr[new] = [j \in 1..heap.ent.n |-> heap.arr[heap.ent.a][j]],
                                !.out = [a |-> new, n |-> heap.ent.n],
                                !.ret = [j \in 1..heap.ent.n |-> heap.arr[heap.ent.a][j]]]
    /\ UNCHANGED << envVars, serverVars, rw, lastFlush, osVars, deferVars, statVars, lifeVars, sinkVars,
                    entries, flushTimer, flushNeeded, nextId, flushRet, tickVars >>

\* buf.Clear(): b.entries = b.entries[:0], the array stays.
HeapClear ==
    /\ Alive
    /\ heap' = [heap EXCEPT !.ent.n = 0]
    /\ entries' = << >>
    /\ UNCHANGED << envVars, serverVars, rw, lastFlush, osVars, deferVars, statVars, lifeVars, sinkVars,
                    flushTimer, flushNeeded, nextId, flushRet, tickVars >>

\* buf.Flush(db): nil at once on an empty buffer; else one transaction, and
\* after its commit b.entries = b.entries[:0].
HeapFlush ==
    /\ Alive
    /\ IF entries = << >>
          THEN /\ flushRet' = "nil"
               /\ UNCHANGED << heap, entries, dbBatches, flushTimer, lastFlush >>
          ELSE \E o \in TxOutcomes : \E k \in FailAt(entries, o) :
                  /\ dbBatches' = TableAfterTx(dbBatches, TxStored(entries, o, k))
                  /\ entries' = FlushRemaining(entries, o)
                  /\ heap' = [heap EXCEPT !.ent.n = Len(FlushRemaining(entries, o))]
                  /\ flushTimer' = FlushTimerAfter(flushTimer, o)
                  /\ lastFlush' = LastFlushAfter(lastFlush, now, o)
                  /\ flushRet' = IF o = "ok" THEN "nil" ELSE "err"
    /\ UNCHANGED << envVars, serverVars, rw, osVars, deferVars, statVars, lifeVars, stream, attempted,
                    flushNeeded, nextId, tickVars >>

\* A buffer from New and the calls made on it, one after the other.
SpecHeap ==
    Init /\ [][HeapAdd \/ HeapGetAndClear \/ HeapGetEntries \/ HeapClear \/ HeapFlush]_vars

\* ------------------------------------------------------------------ the two mutexes
\* A sync.RWMutex x: rw.w[x] is the goroutine that has x's writer mutex (its
\* Lock call has announced itself, new RLock calls wait), rw.in[x] says its
\* Lock call has returned, rw.r[x] are the goroutines holding a read lock.
\* The steps of a goroutine: "W" Lock announces, "E" Lock returns once the
\* readers have left, "U" Unlock, "R" RLock, "Q" RUnlock, "S" the call of
\* the sink returns.

\* Mutant: the flush handler reads a monitor counter under Monitor.mu while it
\* holds Buffer.mu.
LockPrograms_Inverted(t) ==
    CASE t = "sampler" ->
            { << <<"W", "m">>, <<"E", "m">>, <<"W", "b">>, <<"E", "b">>, <<"U", "b">>, <<"U", "m">> >> }
      [] t = "handler" ->
            { << <<"W", "b">>, <<"E", "b">>, <<"R", "m">>, <<"Q", "m">>, <<"S", "b">>, <<"U", "b">> >> }
      [] OTHER -> { << <<"R", "m">>, <<"Q", "m">> >> }

\* The lock calls of one round of each goroutine, in order.
\* sampler, one tick: calculateInputScore (RLock, RUnlock, and Lock, Unlock
\*   around the write of LastInputTick on new input), then step 5 under
\*   Monitor.mu: nothing more, or Buffer.Add, or Buffer.Add and Monitor.flush
\*   (Buffer.Flush with the transaction inside Buffer.mu, or GetAndClear and
\*   the publishes after it);
\* handler, one notification: Monitor.flush without Monitor.mu;
\* stats, one logStats: the counters under RLock, then Len() and Size();
\* caller, one GetStats: Len(), Size() and LastFlush() under Monitor.mu's RLock.
LockPrograms(t) ==
    LET input == << <<"R", "m">>, <<"Q", "m">> >>
        newInput == input \o << <<"W", "m">>, <<"E", "m">>, <<"U", "m">> >>
        lockM == << <<"W", "m">>, <<"E", "m">> >>
        add == << <<"W", "b">>, <<"E", "b">>, <<"U", "b">> >>
        flush == IF redis
                    THEN << <<"W", "b">>, <<"E", "b">>, <<"U", "b">>, <<"S", "b">> >>
                    ELSE << <<"W", "b">>, <<"E", "b">>, <<"S", "b">>, <<"U", "b">> >>
        read == << <<"R", "b">>, <<"Q", "b">> >>
    IN  CASE t = "sampler" ->
                { pre \o lockM \o body \o << <<"U", "m">> >> :
                     pre \in {input, newInput}, body \in {<< >>, add, add \o flush} }
          [] t = "handler" -> { flush }
          [] t = "stats" -> { input \o read \o read }
          [] t = "caller" -> { << <<"R", "m">> >> \o read \o read \o read \o << <<"Q", "m">> >> }

\* One step of goroutine t: the next call of its round, when the mutex lets
\* it go on; a round that is over is followed by another.
LockStep(t) ==
    /\ Alive
    /\ \E p \in IF rw.at[t] = Len(rw.prog[t]) THEN LockPrograms(t) ELSE {rw.prog[t]} :
          LET k == IF rw.at[t] = Len(rw.prog[t]) THEN 1 ELSE rw.at[t] + 1
              op == p[k][1]
              x == p[k][2]
              moved == [rw EXCEPT !.prog[t] = p, !.at[t] = k]
          IN  CASE op = "W" -> /\ rw.w[x] = "none"
                               /\ rw' = [moved EXCEPT !.w[x] = t]
                [] op = "E" -> /\ rw.r[x] = {}
                               /\ rw' = [moved EXCEPT !.in[x] = TRUE]
                [] op = "U" -> rw' = [moved EXCEPT !.w[x] = "none", !.in[x] = FALSE]
                [] op = "R" -> /\ rw.w[x] = "none"
                               /\ rw' = [moved EXCEPT !.r[x] = @ \cup {t}]
                [] op = "Q" -> rw' = [moved EXCEPT !.r[x] = @ \ {t}]
                [] op = "S" -> rw' = moved
    /\ bmu' = IF rw'.in["b"] THEN rw'.w["b"] ELSE "free"
    /\ UNCHANGED << envVars, serverVars, lastFlush, heap, osVars, deferVars, statVars, mainVars, sinkVars,
                    pc, batch, startErr, flushChan, stopChanClosed, drainAttempts,
                    entries, flushTimer, flushNeeded, flushRet, nextId, tickVars >>

\* The sampler, the flush handler, the stats logger and a caller of GetStats,
\* each running its rounds for ever.
SpecLock == Init /\ [][\E t \in DOMAIN rw.at : LockStep(t)]_vars

\* ------------------------------------------------------------------ claims
\* The sink the process was configured with accepts every write, promptly.
SelectedSinkHealthy == IF redis THEN redisHealthy ELSE dbHealthy

\* A step in which a call of Buffer.Flush or Buffer.GetAndClear made by
\* Monitor.flush completes without an error.
DrainCompletes ==
    \E t \in Tasks :
        \/ pc[t] = "flush" /\ pc'[t] # "flush" /\ redis
        \/ pc[t] = "flush" /\ pc'[t] = Home(t) /\ ~redis
        \/ pc[t] = "tx" /\ pc'[t] = Home(t) /\ flushRet' = "nil"

\* A step in which a database transaction of Flush or ForceFlush ends with an error.
DrainFails ==
    /\ \E t \in Tasks : pc[t] \in {"tx", "finalTx"} /\ pc'[t] \notin {"tx", "finalTx"}
    /\ flushRet' = "err"

\* C1: the final drain (ForceFlush in shutdown) is called at most once, never
\* before cancellation, exactly once by the time shutdown has gone past it; a
\* process that exits because the monitor is done has called it, and
\* one that exits with code 0 leaves an empty buffer.
C1_FinalDrainOnce ==
    /\ drainAttempts <= 1
    /\ (~ctxCancelled => drainAttempts = 0)
    /\ (pc["sampler"] \in {"finalTx", "stop", "returned"} => drainAttempts = 1)
    /\ (mainPc = "exited" /\ exitBy = "done" => drainAttempts = 1)
    /\ (mainPc = "exited" /\ exitCode = 0 => drainAttempts = 1 /\ entries = << >>)

\* C1 witness: the process exited with code 0 after a final drain that wrote rows.
C1_Witness ==
    /\ mainPc = "exited"
    /\ exitCode = 0
    /\ drainAttempts = 1
    /\ dbBatches # << >>
    /\ nextId > 1

\* C2 (as claimed): when the configured sink accepts writes, a process that got
\* TERM/INT exits with code 0 and an empty buffer.
C2_ExitsCleanAndEmpty ==
    (mainPc = "exited" /\ ctxCancelled /\ SelectedSinkHealthy) => (exitCode = 0 /\ entries = << >>)

\* C3: once the final drain has started, the flush handler has exited, holds
\* nothing of the buffer, and the sampler is past its tick loop.
C3_FinalDrainAlone ==
    drainAttempts > 0 =>
        /\ pc["handler"] = "exited"
        /\ batch["handler"] = << >>
        /\ bmu # "handler"
        /\ pc["sampler"] \in {"finalTx", "stop", "returned"}

\* C3 witness: the final drain's transaction is in progress after the handler
\* flushed a batch of its own and exited.
C3_Witness ==
    /\ pc["sampler"] = "finalTx"
    /\ pc["handler"] = "exited"
    /\ dbBatches # << >>

\* C4: a tick taken while a full-screen game runs adds one to the tick counter
\* and one to the skipped counter and does nothing else: no record is
\* admitted, no screenshot taken, no field of State and no part of the buffer
\* or of the sinks changes.  So a run of k such ticks in a row (k up to
\* MaxSkipped, ten included) raises the skipped counter by k and stores
\* nothing.
C4_GameTickOnlyCounts ==
    [][ gameRun' > gameRun =>
          /\ tickCount' = tickCount + 1
          /\ skippedTicks' = skippedTicks + 1
          /\ UNCHANGED << entries, nextId, shots, mstate, idleTicks, flushTimer,
                          flushNeeded, dbBatches, stream >>
          /\ skippedTicks' = runBase'[1] + gameRun'
          /\ nextId' = runBase'[2]
          /\ shots' = runBase'[3]
          /\ mstate' = runBase'[4] ]_vars

\* Ten game ticks in a row, taken after a tick that admitted a record and
\* captured a screenshot.
C4_Witness ==
    /\ gameRun = 10
    /\ skippedTicks = runBase[1] + 10
    /\ Len(entries) = 1
    /\ shots = 1
    /\ tickCount = 11

C6_RedisModeNeverWritesDb == redis => dbBatches = << >>

C8_DrainResetsTimer ==
    [][DrainCompletes => entries' = << >> /\ flushTimer' = TFlush]_vars

\* C9 (as claimed): in a running process with both tasks waiting, the timer is
\* scheduled or its notification is pending: another firing is on its way.
C9_TimerKeepsFiring ==
    (mainPc = "running" /\ pc["sampler"] = "loop" /\ pc["handler"] = "wait")
        => (flushTimer # TimerOff \/ flushChan > 0)

\* C10 (as claimed): the buffer never holds more than Capacity records.
C10_BufferBounded == Len(entries) <= Capacity

\* A task is writing a batch to a sink: publishing the records GetAndClear gave
\* it, or inside the transaction of Flush or ForceFlush.
InDrain(t) == pc[t] \in {"publish", "tx", "finalTx"}

\* C11 (as claimed): at most one task writes to a sink at any moment.
C11_OneDrainAtATime == Cardinality({t \in Tasks : InDrain(t)}) <= 1

\* How often record x occurs in the sequence q.
CountIn(q, x) == Cardinality({i \in DOMAIN q : q[i] = x})

\* How often record x occurs in the rows of the committed transactions.
RECURSIVE CountInBatches(_, _)
CountInBatches(bs, x) ==
    IF bs = << >> THEN 0 ELSE CountIn(Head(bs), x) + CountInBatches(Tail(bs), x)

\* The places record x is in: the buffer, a batch a drain took, the stream, the table.
Copies(x) ==
    CountIn(entries, x) + CountIn(batch["sampler"], x) + CountIn(batch["handler"], x)
        + CountIn(stream, x) + CountInBatches(dbBatches, x)

\* C12: with the remote sink, whatever the interleaving of the sampler's and the
\* handler's drains, an admitted record is in one place at most: still
\* buffered, or in the batch of the one drain that took it, or published once
\* (or written once by the final drain); the stream holds no record twice, and
\* a record not yet admitted is nowhere.
C12_NoDuplicates ==
    redis => \A x \in 1..MaxAdds :
                /\ Copies(x) <= 1
                /\ CountIn(stream, x) <= 1
                /\ (x >= nextId => Copies(x) = 0)

\* C12 witness: both tasks have taken a batch of their own and every admitted
\* record has reached the stream.
C12_Witness ==
    /\ redis
    /\ Len(stream) = MaxAdds
    /\ \E i, j \in DOMAIN stream : i < j /\ stream[i] > stream[j]

\* A step in which Monitor.flush calls PublishEvent for the next record of a batch.
PublishStep == \E t \in Tasks : pc[t] = "publish" /\ batch'[t] # batch[t]

\* C13: in a remote drain PublishEvent is called once for every record of the
\* batch, in turn, whether or not an earlier call failed: no record is
\* attempted twice, a record that a finished drain took has had its attempt,
\* and a publish step, failed or not, puts nothing back into the buffer and
\* moves on by exactly one record (a failed one is in the stream never).
C13_OneAttemptEach ==
    /\ [](redis => \A x \in 1..MaxAdds :
                      /\ CountIn(attempted, x) <= 1
                      /\ CountIn(stream, x) <= CountIn(attempted, x)
                      /\ (x < nextId /\ Copies(x) = 0 => CountIn(attempted, x) = 1))
    /\ [][PublishStep =>
            /\ entries' = entries
            /\ \E t \in Tasks :
                  /\ pc[t] = "publish"
                  /\ batch[t] # << >>
                  /\ batch'[t] = Tail(batch[t])
                  /\ attempted' = Append(attempted, Head(batch[t]))
                  /\ stream' \in {stream, Append(stream, Head(batch[t]))} ]_vars

\* C13 witness: a drain of two records has ended; the publish of the first
\* failed and the second was published all the same.
C13_Witness ==
    /\ redis
    /\ attempted = << 1, 2 >>
    /\ stream = << 2 >>
    /\ entries = << >>
    /\ \A t \in Tasks : batch[t] = << >>

\* The records of q are in admission order (record numbers grow).
InAdmissionOrder(q) == \A i, j \in DOMAIN q : i < j => q[i] < q[j]

\* C14: the buffer holds its records in the order the sampler admitted them,
\* every batch a drain took and every committed transaction has them in that
\* order, and a remote drain publishes its batch from the front: the stream
\* gets the records of one drain in admission order.
C14_AdmissionOrderKept ==
    /\ [](/\ InAdmissionOrder(entries)
          /\ \A t \in Tasks : InAdmissionOrder(batch[t])
          /\ \A i \in DOMAIN dbBatches : InAdmissionOrder(dbBatches[i]))
    /\ [][PublishStep =>
            \E t \in Tasks :
               /\ pc[t] = "publish"
               /\ batch[t] # << >>
               /\ stream' \in {stream, Append(stream, Head(batch[t]))}
               /\ \A i \in DOMAIN batch'[t] : Head(batch[t]) < batch'[t][i] ]_vars

\* C14 witness: two transactions were committed, the first with two rows.
C14_Witness ==
    /\ ~redis
    /\ dbBatches = << << 1, 2 >>, << 3 >> >>

\* A step in which the transaction of Flush or ForceFlush ends and the call returns.
TxEnds == \E t \in Tasks : pc[t] \in {"tx", "finalTx"} /\ pc'[t] \notin {"tx", "finalTx"}

\* C15: when Flush or ForceFlush returns from its transaction, either it
\* returns nil and the whole batch (the buffer's content, in order) is in the
\* table as one transaction, or it returns an error and the table is as it was
\* before: never some rows of the batch without the others.
C15_BatchAtomic ==
    [][TxEnds =>
          \/ flushRet' = "nil" /\ dbBatches' = Append(dbBatches, entries)
          \/ flushRet' = "err" /\ dbBatches' = dbBatches ]_vars

\* C15 witness: a flush of two records failed and stored nothing; the next one
\* committed them together with the record admitted since.
C15_Witness ==
    /\ ~redis
    /\ flushRet = "nil"
    /\ Len(dbBatches) = 1
    /\ Len(dbBatches[1]) = Capacity + 1

\* A call of Buffer.Flush on a buffer that holds records returns.
RowFlushReturns == lastGate' = "flush" /\ entries # << >>

\* C16 (as claimed): Flush of a non-empty buffer to a working database that
\* holds the event table returns nil, leaves the buffer empty and stores one
\* row per record, in order, with process_name, window_title, window_hwnd,
\* input_idle_ms and input_intensity equal to the record's fields.
C16_FlushStoresFields ==
    [][RowFlushReturns =>
          /\ flushRet' = "nil"
          /\ entries' = << >>
          /\ Len(dbBatches') = Len(dbBatches) + 1
          /\ LET rows == dbBatches'[Len(dbBatches')]
             IN  /\ Len(rows) = Len(entries)
                 /\ \A i \in DOMAIN entries :
                       /\ rows[i]["process_name"] = Text(entries[i].ProcessName)
                       /\ rows[i]["window_title"] = Text(entries[i].WindowTitle)
                       /\ rows[i]["window_hwnd"] = Integer(entries[i].WindowHandle)
                       /\ rows[i]["input_idle_ms"] = Integer(entries[i].InputIdleMs)
                       /\ rows[i]["input_intensity"] = Real(entries[i].InputIntensity) ]_vars

\* A step that is a tick which passed the game gate and found a foreground window.
ProbedWindow == tickCount' = tickCount + 1 /\ probe'.hwnd # 0

\* The places record x is in when the tick and its drain are over: the
\* buffer, the table, the publishes made.
PlacedAfter(x) == CountIn(entries', x) + CountInBatches(dbBatches', x) + CountIn(attempted', x)

\* One of the six conditions holds for what the tick read, against the state
\* the previous admission left.
AdmissionCase ==
    \/ probe'.hwnd # mstate.LastWindowHandle
    \/ probe'.title # mstate.LastWindowTitle
    \/ probe'.proc # mstate.LastProcessName
    \/ now' - mstate.LastTickTime > TimePassedAfter
    \/ (probe'.idleTime < IdleThreshold /\ 10 * probe'.score > ScoreWindow)
    \/ probe'.shot

\* C17: a tick that passes the game gate and finds a foreground window admits
\* exactly one record, built from what it read, if the handle, the title or
\* the process name changed, more than 5 s passed since the last admission,
\* the user is not idle with a score above 0.1, or a screenshot was taken; it
\* admits none otherwise.  So after RunLen ticks on one window the tick that
\* reads another handle and title admits exactly one record.
C17_AdmissionPredicate ==
    [][ /\ ProbedWindow =>
             IF AdmissionCase
                THEN /\ nextId' = nextId + 1
                     /\ PlacedAfter(nextId) = 1
                     /\ tickEntry'.WindowHandle = probe'.hwnd
                     /\ tickEntry'.WindowTitle = probe'.title
                     /\ tickEntry'.ProcessName = probe'.proc
                ELSE /\ nextId' = nextId
                     /\ tickEntry' = NoEntry
                     /\ UNCHANGED << entries, sinkVars >>
        /\ scenario = "S2" /\ tickCount = RunLen /\ tickCount' = RunLen + 1 =>
             /\ nextId' = nextId + 1
             /\ PlacedAfter(nextId) = 1
             /\ tickEntry'.WindowHandle = 2
             /\ tickEntry'.WindowTitle = "B" ]_vars

\* The window changed at tick RunLen + 1 of S2, after a tick that admitted nothing.
C17_Witness ==
    /\ scenario = "S2"
    /\ tickCount = RunLen + 1
    /\ lastGate = "logged"
    /\ tickEntry.WindowHandle = 2
    /\ nextId = 3

\* The step is tick k of the run.
IsTick(k) == tickCount = k - 1 /\ tickCount' = k

Records(a, b) == [i \in 1..(b - a + 1) |-> a + i - 1]

\* C19: with sinks that accept every drain the buffer holds fewer than
\* Capacity records after every completed tick; when every tick admits a
\* record (S3), after k ticks the records were drained in k \div Capacity
\* batches of Capacity consecutive records each, written in order (to the
\* table one transaction per batch, to the stream one after the other), and
\* the last k % Capacity records are in the buffer: after 2 * Capacity + 1
\* ticks two batches were written and the last record waits in the buffer.
C19_CapacityBatches ==
    /\ SelectedSinkHealthy => Len(entries) < Capacity
    /\ scenario = "S3" =>
          LET full == tickCount \div Capacity
          IN  /\ nextId = tickCount + 1
              /\ entries = Records(full * Capacity + 1, tickCount)
              /\ ~redis =>
                    /\ dbBatches = [b \in 1..full |-> Records((b - 1) * Capacity + 1, b * Capacity)]
                    /\ stream = << >>
              /\ redis =>
                    /\ stream = Records(1, full * Capacity)
                    /\ attempted = stream
                    /\ dbBatches = << >>

\* 2 * Capacity + 1 admitting ticks done: two transactions, one record buffered.
C19_Witness ==
    /\ scenario = "S3"
    /\ ~redis
    /\ tickCount = 2 * Capacity + 1
    /\ Len(dbBatches) = 2
    /\ dbBatches[1] = Records(1, Capacity)
    /\ dbBatches[2] = Records(Capacity + 1, 2 * Capacity)
    /\ entries = << 2 * Capacity + 1 >>

\* max(0, 1 - ms/5000), times ScoreWindow.
Recency(ms) == IF ms >= ScoreWindow THEN 0 ELSE ScoreWindow - ms

\* C20 (as claimed): the input_intensity of a tick is 0 when idle_ms >=
\* idle_threshold; otherwise 0 when the last-input tick value is the one seen
\* before, and otherwise max(0, 1 - idle_ms/5000) of the tick's idle_ms; it
\* lies in [0, 1].
C20_ScoreFromIdleMs ==
    [][ProbedWindow =>
          /\ probe'.score =
                IF probe'.idleTime >= IdleThreshold THEN 0
                ELSE IF probe'.inputTick = mstate.LastInputTick THEN 0
                ELSE Recency(probe'.idleTime)
          /\ probe'.score \in 0..ScoreWindow ]_vars

\* C20 (amended): the input_intensity of a tick is 0 when idle_ms >=
\* idle_threshold; otherwise 0 when the last-input tick value cannot be read
\* or is the value State.LastInputTick holds, and otherwise
\* max(0, 1 - idle2/5000), where idle2 is a second reading of the idle time
\* that calculateInputScore takes itself (0 when that reading fails), not the
\* idle_ms of the record; it lies in [0, 1], and a record the tick admits
\* carries it with the tick's idle_ms.
C20_ScoreFromSecondReading ==
    [][ProbedWindow =>
          /\ probe'.score =
                IF probe'.idleTime >= IdleThreshold THEN 0
                ELSE IF probe'.inputTick = ProbeErr \/ probe'.inputTick = mstate.LastInputTick
                        THEN 0
                ELSE Recency(IF probe'.idle2 = ProbeErr THEN 0 ELSE probe'.idle2)
          /\ probe'.score \in 0..ScoreWindow
          /\ tickEntry' # NoEntry =>
                /\ tickEntry'.InputIntensity = probe'.score
                /\ tickEntry'.InputIdleMs = probe'.idleTime ]_vars

\* A tick whose idle_ms is 0 and whose score comes from a second reading of 4600 ms.
C20_Witness ==
    /\ lastGate = "logged"
    /\ probe.hwnd # 0
    /\ probe.idleTime = 0
    /\ probe.idle2 = 4600
    /\ probe.score = ScoreWindow - 4600
    /\ tickEntry.InputIntensity = probe.score
    /\ tickEntry.InputIdleMs = 0

\* C21 (as claimed): the answer of GetIdleTime is the true number of
\* milliseconds since the last input, also when the tick counter has wrapped
\* since (tick < lastInput), and lies in the counter's range.
C21_IdleTimeAcrossWrap ==
    tickRead.idle # NoIdle =>
        /\ tickRead.idle = tickRead.elapsed
        /\ tickRead.idle \in 0..(TickModulus - 1)

\* C23 (as claimed): a process that exits with code 0 has closed the DB handle
\* once, and the sink connection once when there is one; nothing is closed
\* before the final drain is over.
C23_ClosedOnceAfterDrain ==
    /\ (mainPc = "exited" /\ exitCode = 0) =>
          /\ closeCalls.db = 1
          /\ closeCalls.redis = IF redis THEN 1 ELSE 0
    /\ (drainAttempts = 0 \/ pc["sampler"] = "finalTx") =>
          closeCalls = [ db |-> 0, redis |-> 0 ]

\* C24: once INT/TERM has been received the process terminates: main exits
\* when the monitor has finished its shutdown, or by the deadline, with code
\* 1, also when a drain stays blocked inside the sink.
C24_ExitsAfterSignal ==
    /\ (mainPc = "stopping") ~> (mainPc = "exited")
    /\ [](mainPc = "exited" /\ ctxCancelled => exitBy \in {"done", "timeout"})
    /\ [](exitBy = "timeout" => exitCode = 1)

\* The deadline ended the process while the final drain was inside the database.
C24_Witness ==
    /\ mainPc = "exited"
    /\ exitBy = "timeout"
    /\ exitCode = 1
    /\ pc["sampler"] = "finalTx"
    /\ ~dbHealthy

\* C25 (as claimed): the exit code is non-zero exactly when initialization
\* failed, and then nothing of the monitor ran, or when the shutdown deadline
\* was exceeded; a shutdown that completes in time exits with 0.
C25_NonZeroOnlyInitOrDeadline ==
    mainPc = "exited" =>
        /\ (exitCode # 0) <=> (exitBy \in {"fatal", "timeout"})
        /\ exitBy = "fatal" => nextId = 1 /\ drainAttempts = 0

\* C25 (amended): the exit code is 1 exactly when initialization failed (and
\* then nothing of the monitor ran), when the shutdown deadline was exceeded,
\* or when the shutdown completed in time but its final drain failed, so that
\* Start returned the error; otherwise it is 0.
C25_NonZeroAlsoOnFailedDrain ==
    mainPc = "exited" =>
        /\ exitCode \in {0, 1}
        /\ (exitCode = 1) <=>
              \/ exitBy = "fatal"
              \/ exitBy = "timeout"
              \/ (exitBy = "done" /\ startErr = "err")
        /\ exitBy = "fatal" => nextId = 1 /\ drainAttempts = 0 /\ ~ctxCancelled
        /\ (exitBy = "done" /\ startErr = "err") => flushRet = "err" /\ drainAttempts = 1

\* The shutdown completed before the deadline with an error of the final drain.
C25_Witness ==
    /\ mainPc = "exited"
    /\ exitBy = "done"
    /\ startErr = "err"
    /\ exitCode = 1
    /\ entries # << >>

\* The step is a tick of the sampler.
IsATick == tickCount' = tickCount + 1

\* The step's tick captured a screenshot.
ShotTaken == shots' = shots + 1

\* C22: a tick takes at most one screenshot, and only when it passed the game
\* gate, found a window, is not idle and at least ScreenshotInterval has
\* passed since the last screenshot; last_screenshot_time becomes the tick's
\* time when it does and stays otherwise, so any two screenshots are at
\* least the interval apart.
C22_ScreenshotsApart ==
    /\ [](shots > 0 => mstate.LastScreenshotTime # ZeroTime /\ mstate.LastScreenshotTime <= now)
    /\ [][IsATick =>
             /\ shots' \in {shots, shots + 1}
             /\ ShotTaken =>
                   /\ lastGate' \in {"nolog", "logged"}
                   /\ probe'.hwnd # 0
                   /\ probe'.idleTime < IdleThreshold
                   /\ probe'.shot
                   /\ now' - mstate.LastScreenshotTime >= shotInterval
                   /\ mstate'.LastScreenshotTime = now'
             /\ ~ShotTaken => mstate'.LastScreenshotTime = mstate.LastScreenshotTime
             /\ lastGate' = "game" => ~ShotTaken ]_vars

\* Two screenshots two tick periods apart, the tick between them not idle.
C22_Witness ==
    /\ scenario = "Shots"
    /\ shotInterval = 2 * TickPeriod
    /\ shots = 2
    /\ tickCount = 3
    /\ idleTicks = 0
    /\ skippedTicks = 0
    /\ mstate.LastScreenshotTime = now

\* C26: whatever fails inside a tick (a probe call, the screenshot capture,
\* the flush the full buffer triggers), the tick returns to Start's loop with
\* the process running; a failed probe call is replaced by its default (idle
\* time 0, title "Unknown", pid 0), and the tick admits exactly one record
\* when the admission predicate holds for what it read.
C26_TickSurvivesFailures ==
    /\ [](mainPc = "running" /\ pc["sampler"] = "loop")
    /\ [][IsATick =>
             /\ lastGate' \in {"game", "nowindow", "nolog", "logged"}
             /\ probe'.hwnd # 0 =>
                   /\ probe'.idleTime >= 0
                   /\ probe'.title # TitleErr
                   /\ probe'.proc \in {ProcessNameOf(pid) : pid \in PidAnswers}
                   /\ AdmissionCase =>
                         /\ nextId' = nextId + 1
                         /\ tickEntry'.UnixTime = now'
                         /\ tickEntry'.WindowTitle = probe'.title ]_vars

\* A tick admitted a record after the flush of the full buffer had failed and
\* the records had piled up.
C26_Witness ==
    /\ scenario = "S3fail"
    /\ ~redis
    /\ flushRet = "err"
    /\ dbBatches = << >>
    /\ Len(entries) = Capacity + 2
    /\ tickCount = Capacity + 2
    /\ lastGate = "logged"

\* C27: a tick that passes the game gate and finds no foreground window
\* admits no record, takes no screenshot and leaves the sampler's state
\* (last window, last_screenshot_time and the rest), the buffer and the sinks
\* as they were; tickCount advances by one, idleTicks by one or not at all.
C27_NoWindowChangesNothing ==
    [][(IsATick /\ lastGate' # "game" /\ probe'.hwnd = 0) =>
          /\ lastGate' = "nowindow"
          /\ tickEntry' = NoEntry
          /\ nextId' = nextId
          /\ entries' = entries
          /\ shots' = shots
          /\ mstate' = mstate
          /\ dbBatches' = dbBatches
          /\ stream' = stream
          /\ attempted' = attempted
          /\ skippedTicks' = skippedTicks
          /\ idleTicks' \in {idleTicks, idleTicks + 1} ]_vars

\* A tick found no window after records had been admitted and a screenshot
\* taken, and counted as idle.
C27_Witness ==
    /\ lastGate = "nowindow"
    /\ nextId > 1
    /\ shots > 0
    /\ idleTicks = RunLen + 1
    /\ mstate.LastWindowHandle # 0

\* C28: every record a tick hands to Buffer.Add carries the one session id of
\* the run, which is not empty, an idle time of at least 0 ms, an input
\* intensity between 0 and 1 (here between 0 and ScoreWindow, the score being
\* kept times ScoreWindow), and the screenshot marker whenever it carries
\* screenshot bytes.
C28_RecordWellFormed ==
    /\ [](tickEntry # NoEntry =>
             /\ tickEntry.SessionUUID = "default-session"
             /\ tickEntry.SessionUUID # ""
             /\ tickEntry.InputIdleMs >= 0
             /\ tickEntry.InputIntensity >= 0
             /\ tickEntry.InputIntensity <= ScoreWindow
             /\ tickEntry.ScreenshotData => tickEntry.ScreenshotPath # "")
    /\ [][(tickEntry # NoEntry /\ tickEntry' # NoEntry) =>
             tickEntry'.SessionUUID = tickEntry.SessionUUID]_vars

\* A record with screenshot bytes and the full intensity, admitted after
\* others of the run.
C28_Witness ==
    /\ tickEntry # NoEntry
    /\ tickEntry.ScreenshotData
    /\ tickEntry.ScreenshotPath = "RAM"
    /\ tickEntry.InputIntensity = ScoreWindow
    /\ tickEntry.InputIdleMs = 0
    /\ nextId > 3

\* The step completes task t's m.flushCount++.
CountsFlush(t) == pc[t] = "count" /\ pc'[t] # "count"

\* C29: flushCount and eventsPushed are written by the sampler task alone, and
\* no update of them is lost: every completed m.flushCount++ leaves the
\* counter one higher than it was.
C29_CountersOnlyBySampler ==
    [][/\ (flushCount' # flushCount \/ eventsPushed' # eventsPushed) =>
             pc'["handler"] = pc["handler"]
       /\ \A t \in Tasks : CountsFlush(t) => flushCount' = flushCount + 1 ]_vars

\* C30: every publish is an XADD to mnemosyne:events with MAXLEN ~ 5000, and
\* from the 5000th successful publish on the stream holds about 5000 entries:
\* never fewer than MaxLen, and within a tenth of MaxLen of it, in particular
\* after ManyPublishes (20,000) publishes.
C30_StreamCapped ==
    /\ xstream.xadds > 0 =>
          /\ xstream.call.Stream = "mnemosyne:events"
          /\ xstream.call.MaxLen = 5000
          /\ xstream.call.Approx
    /\ xstream.xadds < MaxLen => xstream.len = xstream.xadds
    /\ xstream.xadds >= MaxLen =>
          /\ xstream.len >= MaxLen
          /\ xstream.len >= MaxLen - MaxLen \div 10
          /\ xstream.len <= MaxLen + MaxLen \div 10

\* 20,000 publishes have succeeded and the server has trimmed the stream.
C30_Witness ==
    /\ xstream.xadds = ManyPublishes
    /\ xstream.len < xstream.xadds
    /\ xstream.len >= MaxLen

\* C31: every tick that passes the game gate and finds a foreground window
\* leaves in the state the handle, the title and the process name it read and
\* its own time, and the last-input tick it observed if it observed one,
\* whether or not it admitted a record.
C31_StateUpdatedEveryTick ==
    [][ProbedWindow =>
          /\ mstate'.LastWindowHandle = probe'.hwnd
          /\ mstate'.LastWindowTitle = probe'.title
          /\ mstate'.LastProcessName = probe'.proc
          /\ mstate'.LastTickTime = now'
          /\ probe'.inputTick # ProbeErr => mstate'.LastInputTick = probe'.inputTick ]_vars

\* C32: a watcher started with -tick 200ms and no other option runs with the
\* default screenshot interval of 1 s, so a screenshot is at least 1 s after
\* the one before it.
C32_DefaultIntervalApplied ==
    [][(scenario = "Fast" /\ IsATick /\ ShotTaken /\ shots > 0) =>
          /\ shotInterval = DefaultScreenshotInterval
          /\ now' - mstate.LastScreenshotTime >= DefaultScreenshotInterval ]_vars

\* A call of Buffer.Flush or Buffer.ForceFlush on a buffer that holds records returns.
RowDrainReturns == lastGate' \in {"flush", "forceflush"} /\ entries # << >>

\* C33: Flush and ForceFlush bind each record's fields to the columns of the
\* INSERT in the declared order, one value per placeholder: whichever of the
\* two drains the buffer, the transaction commits one row per record, in
\* order, each column holding the record's field of that name, so both paths
\* write the same rows for the same buffer contents.
C33_SameRowsOnBothPaths ==
    [][RowDrainReturns =>
          /\ flushRet' = "nil"
          /\ Len(dbBatches') = Len(dbBatches) + 1
          /\ LET rows == dbBatches'[Len(dbBatches')]
             IN  /\ Len(rows) = Len(entries)
                 /\ \A i \in DOMAIN entries :
                       /\ rows[i]["session_uuid"] = Text(entries[i].SessionUUID)
                       /\ rows[i]["unix_time"] = Integer(entries[i].UnixTime)
                       /\ rows[i]["process_name"] = Text(entries[i].ProcessName)
                       /\ rows[i]["window_title"] = Text(entries[i].WindowTitle)
                       /\ rows[i]["window_hwnd"] = Integer(entries[i].WindowHandle)
                       /\ rows[i]["input_idle_ms"] = Integer(entries[i].InputIdleMs)
                       /\ rows[i]["input_intensity"] = Real(entries[i].InputIntensity)
                       /\ rows[i]["screenshot_path"] = Text(entries[i].ScreenshotPath) ]_vars

ForceFlushReturned == drainAttempts > 0 /\ pc["sampler"] \in {"stop", "returned"}

\* C35: ForceFlush writes all buffered records in one transaction and leaves
\* the buffer empty, and it stops the timer: once it has returned, whatever
\* the buffer held, an empty buffer included, no notification is placed on
\* the flush channel any more.
C35_FinalDrainStopsTimer ==
    [][/\ (pc["sampler"] = "finalTx" /\ pc'["sampler"] = "stop") =>
             /\ entries' = << >>
             /\ dbBatches' = Append(dbBatches, entries)
       /\ ForceFlushReturned => flushChan' <= flushChan ]_vars

\* The step is the timer's callback running (no task stops the timer in it).
TimerFires == flushTimer = 0 /\ flushTimer' = TimerOff /\ pc' = pc

\* C36: the flush channel never holds more than one notification; the
\* callback of a timer that fires while one is pending leaves it at one, and
\* the callback can always run: it never waits for the channel.
C36_OnePendingNotification ==
    /\ [](flushChan \in {0, 1})
    /\ []((Alive /\ flushTimer = 0) => ENABLED TimerFire)
    /\ [][TimerFires => flushChan' = 1]_vars

\* The timer has run out while a notification of an earlier firing is still
\* pending and an earlier drain has re-armed it.
C36_Witness ==
    /\ Alive
    /\ flushChan = 1
    /\ flushTimer = 0
    /\ pc["handler"] = "wait"

\* C37: the slice GetAndClear or GetEntries handed out never shares its array
\* with Buffer.entries and keeps the records it held at the return, in
\* admission order, whatever Add, Clear and Flush do afterwards; the buffer's
\* own slice holds the buffered records.
C37_HandedOutNotAliased ==
    /\ heap.out.a # heap.ent.a
    /\ heap.out.a # 0 => [j \in 1..heap.out.n |-> heap.arr[heap.out.a][j]] = heap.ret
    /\ \A i, j \in DOMAIN heap.ret : i < j => heap.ret[i] < heap.ret[j]
    /\ [j \in 1..heap.ent.n |-> heap.arr[heap.ent.a][j]] = entries

\* A copy of two records is still whole after the buffer was emptied and a
\* later record was written over the first cell of its array.
C37_Witness ==
    /\ Len(heap.ret) >= 2
    /\ Len(heap.ret) < Capacity
    /\ heap.out.n = Len(heap.ret)
    /\ Len(heap.arr[heap.out.a]) = Len(heap.ret)
    /\ Len(entries) = 1
    /\ entries[1] > heap.ret[Len(heap.ret)]
    /\ heap.arr[heap.ent.a][1] = entries[1]

\* C38 (as claimed): while the process runs with a sink that accepts every
\* write, a record in the buffer is eventually drained, also when no further
\* record is admitted.
C38_AdmittedEventuallyDrained ==
    (Alive /\ SelectedSinkHealthy /\ entries # << >>) ~> (~Alive \/ entries = << >>)

\* C39: a tick that passes the game gate and finds a window more than 5 s
\* after the last admitted record admits one, stamped with the tick's time;
\* so when the tick before it passed the gate and found a window too, an
\* admission is at most 5 s and one tick period after the one before it.
C39_TimeRuleKeepsAdmitting ==
    [][ProbedWindow =>
          /\ now' - mstate.LastTickTime > TimePassedAfter =>
                /\ lastGate' = "logged"
                /\ nextId' = nextId + 1
                /\ tickEntry'.UnixTime = now'
                /\ mstate'.LastTickTime = now'
          /\ (lastGate \in {"nolog", "logged"} /\ lastGate' = "logged") =>
                now' - mstate.LastTickTime <= TimePassedAfter + TickInterval ]_vars

\* The second record of a run in one window: admitted by the time rule alone,
\* 5 s and one tick period after the first.
C39_Witness ==
    /\ scenario = "S1after"
    /\ tickCount = RunLen + 2
    /\ lastGate = "logged"
    /\ nextId = 3
    /\ ~probe.shot
    /\ probe.score = 0
    /\ probe.hwnd = 1 /\ probe.title = "A"
    /\ tickEntry.UnixTime = StartTime + (RunLen + 2) * TickPeriod
    /\ mstate.LastTickTime = tickEntry.UnixTime

\* C40: the goroutines never deadlock on Monitor.mu and Buffer.mu: some
\* goroutine can always take its next step, and there is no set of waiting
\* goroutines each of which waits for a mutex that only members of the set
\* can release.
C40_NoDeadlock ==
    LET Ts == DOMAIN rw.at
        NextOp(t) == IF rw.at[t] = Len(rw.prog[t]) THEN << "none", "none" >> ELSE rw.prog[t][rw.at[t] + 1]
        WaitsFor(t) ==
            LET op == NextOp(t)[1]
                x == NextOp(t)[2]
            IN  CASE op \in {"W", "R"} -> {rw.w[x]} \ {"none"}
                  [] op = "E" -> rw.r[x]
                  [] OTHER -> {}
    IN  /\ Alive => ENABLED (\E t \in DOMAIN rw.at : LockStep(t))
        /\ \A S \in SUBSET Ts :
              S # {} => \E t \in S : WaitsFor(t) = {} \/ ~(WaitsFor(t) \subseteq S)

\* The sampler, inside tick under Monitor.mu, waits for Buffer.mu while the
\* handler's transaction is under way, and logStats waits for Buffer.mu too.
C40_Witness ==
    /\ rw.w["m"] = "sampler" /\ rw.in["m"]
    /\ rw.w["b"] = "handler" /\ rw.in["b"]
    /\ rw.at["handler"] = 2
    /\ rw.at["sampler"] < Len(rw.prog["sampler"])
    /\ rw.prog["sampler"][rw.at["sampler"] + 1] = << "W", "b" >>
    /\ rw.at["stats"] < Len(rw.prog["stats"])
    /\ rw.prog["stats"][rw.at["stats"] + 1] = << "R", "b" >>

====
